---- MODULE Spec2Model ----
(***************************************************************************)
(* A model of the operators of the Blender scripts under                   *)
(* src/blender/scripts.  Every operator runs synchronously on the host's   *)
(* scripting thread: one action of the model is one whole execute() call.  *)
(* The host document (bones, meshes, shape key layers, UV layers) is the   *)
(* state; the operator properties are the inputs of the action.            *)
(*                                                                         *)
(* Each execute() is recorded in `call` (operator and properties), its     *)
(* outcome in `result` (returned status and the self.report calls made),   *)
(* and the document as it was when execute() started in the pre_*          *)
(* variables, so that a postcondition is a state predicate.                *)
(*                                                                         *)
(* Coordinates: a mathutils.Vector is modelled by one component, a number. *)
(* The scripts only use componentwise +, -, scaling, lerp, any() and !=,   *)
(* which act on one component as on three.  Arithmetic is exact.           *)
(***************************************************************************)
EXTENDS Integers, Sequences, FiniteSets, TLC

VARIABLES
    call,            \* the last execute(): [op |-> ..., properties ...], or NoCall
    result,          \* [status |-> ..., reports |-> sequence of <<type, message>>]
    bones,           \* parent.children of the active bone: sequence of bone records
    active_bone,     \* index in `bones` of the active bone
    pre_bones,       \* bones / active_bone when the last execute() started
    pre_active_bone,
    objects,         \* the mesh objects the operator works on, objects[1] being
                     \* context.object: context.objects_in_mode_unique_data in edit
                     \* mode, context.selected_objects in object mode; a record has
                     \* the fields the operators of its specification read
    pre_objects,     \* objects when the last execute() started
    uv_meshes,       \* the meshes in edit mode, with their UV layers, faces and loops
    uv_select_sync,  \* context.scene.tool_settings.use_uv_select_sync
    pre_uv_meshes    \* uv_meshes when the last execute() started

vars == <<call, result, bones, active_bone, pre_bones, pre_active_bone,
          objects, pre_objects, uv_meshes, uv_select_sync, pre_uv_meshes>>

bone_vars == <<bones, active_bone, pre_bones, pre_active_bone>>
mesh_vars == <<objects, pre_objects>>
uv_vars == <<uv_meshes, uv_select_sync, pre_uv_meshes>>

\* What an operator on bones, on shape keys, on UV layers leaves alone
not_bone_vars == <<mesh_vars, uv_vars>>
not_mesh_vars == <<bone_vars, uv_vars>>
not_uv_vars == <<bone_vars, mesh_vars>>

NoCall == [op |-> "none"]
NoResult == [status |-> "NONE", reports |-> <<>>]

\* Sequence helpers
Reverse(s) == [i \in 1..Len(s) |-> s[Len(s) + 1 - i]]

SeqToSet(s) == {s[i] : i \in 1..Len(s)}

\* The context is not an armature in edit or pose mode
NoBones ==
    /\ bones = <<>>
    /\ active_bone = 0
    /\ pre_bones = <<>>
    /\ pre_active_bone = 0

\* The context is not a mesh in edit mode
NoMeshes ==
    /\ objects = <<>>
    /\ pre_objects = <<>>

\* No mesh is looked at for its UV layers
NoUVMeshes ==
    /\ uv_meshes = <<>>
    /\ uv_select_sync = FALSE
    /\ pre_uv_meshes = <<>>

(***************************************************************************)
(* BoneCycleHierarchy.py                                                   *)
(***************************************************************************)
\* Largest number of children of the active bone's parent
MaxBones == 3

\* The possible assignments of (unique) bone names to n bones: a name is its
\* rank in alphabetical order.
NameOrders(n) == {f \in [1..n -> 1..n] : \A i, j \in 1..n : i # j => f[i] # f[j]}

\* sorted(siblings, key=lambda b: b.name, reverse=reverse_order) over bone indices
SortedByName(s, reverse_order) ==
    LET Before(b) ==
            {c \in SeqToSet(s) : IF reverse_order THEN bones[c].name > bones[b].name
                                                  ELSE bones[c].name < bones[b].name}
    IN  [i \in 1..Len(s) |-> CHOOSE b \in SeqToSet(s) : Cardinality(Before(b)) = i - 1]

\* The sibling list after the ordering step of execute
OrderedSiblings(direction, order) ==
    LET siblings == [i \in 1..Len(bones) |-> i]
        reverse_order == direction = "BACKWARDS"
    IN  IF order = "ALPHABETICAL" THEN SortedByName(siblings, reverse_order)
        ELSE IF reverse_order THEN Reverse(siblings)
        ELSE siblings

\* siblings.index(active_bone)
IndexOf(s, x) == CHOOSE i \in 1..Len(s) : s[i] = x

\* chain(siblings[active_index+1:], siblings[:active_index])
SiblingsChain(siblings, active_index) ==
    SubSeq(siblings, active_index + 1, Len(siblings)) \o SubSeq(siblings, 1, active_index - 1)

\* A mutant of the filter: only `hide` is looked at
SelectableOnlyHide(b) == ~bones[b].hide

\* not b.hide and not b.hide_select
Selectable(b) == ~bones[b].hide /\ ~bones[b].hide_select

\* next(siblings_chain, None): 0 stands for None
NextBone(direction, order) ==
    LET siblings == OrderedSiblings(direction, order)
        active_index == IndexOf(siblings, active_bone)
        siblings_chain == SelectSeq(SiblingsChain(siblings, active_index), Selectable)
    IN  IF siblings_chain = <<>> THEN 0 ELSE Head(siblings_chain)

SetSelect(b, v) == [b EXCEPT !.select = v, !.select_head = v, !.select_tail = v]

\* MYSTERYEM_bone_cycle_hierarchy.poll: there is an active bone, and it has a
\* parent (bones holds the children of that parent)
BoneCyclePoll == active_bone # 0

\* MYSTERYEM_bone_cycle_hierarchy.execute
BoneCycleExecute(direction, extend, order) ==
    /\ call = NoCall
    /\ BoneCyclePoll
    /\ \E next_bone \in {NextBone(direction, order)} :
          /\ call' = [op |-> "bone_cycle_hierarchy", direction |-> direction,
                      extend |-> extend, order |-> order]
          /\ pre_bones' = bones
          /\ pre_active_bone' = active_bone
          /\ UNCHANGED not_bone_vars
          /\ IF next_bone # 0
             THEN /\ bones' = [i \in 1..Len(bones) |->
                                 IF i = next_bone THEN SetSelect(bones[i], TRUE)
                                 ELSE IF i = active_bone /\ ~extend THEN SetSelect(bones[i], FALSE)
                                 ELSE bones[i]]
                  /\ active_bone' = next_bone
                  /\ result' = [status |-> "FINISHED", reports |-> <<>>]
             ELSE /\ UNCHANGED <<bones, active_bone>>
                  /\ result' = [status |-> "CANCELLED", reports |-> <<>>]

\* The sibling lists of n bones named by `names`, of which only the active bone
\* `act` is selected.
BoneRecords(n, names, act) ==
    {[i \in 1..n |-> [name |-> names[i], hide |-> h[i], hide_select |-> hs[i],
                      select |-> i = act, select_head |-> i = act, select_tail |-> i = act]] :
        h \in [1..n -> BOOLEAN], hs \in [1..n -> BOOLEAN]}

InitBone ==
    /\ call = NoCall
    /\ result = NoResult
    /\ \E n \in 1..MaxBones : \E names \in NameOrders(n) : \E act \in 1..n :
          /\ active_bone = act
          /\ bones \in BoneRecords(n, names, act)
    /\ pre_bones = bones
    /\ pre_active_bone = active_bone
    /\ NoMeshes
    /\ NoUVMeshes

NextBoneCycle ==
    \E direction \in {"FORWARDS", "BACKWARDS"}, extend \in BOOLEAN,
       order \in {"DEFAULT", "ALPHABETICAL"} :
        BoneCycleExecute(direction, extend, order)

SpecBone == InitBone /\ [][NextBoneCycle]_vars

\* ---- C1 ----
\* Position of bone b in the order the call cycles through: the place in
\* parent.children, or the alphabetical rank of the name.
C1_Key(b) == IF call.order = "ALPHABETICAL" THEN pre_bones[b].name ELSE b

\* Number of steps from the old active bone to bone b, cycling in the call's direction
C1_Steps(b) ==
    IF call.direction = "FORWARDS"
    THEN (C1_Key(b) - C1_Key(pre_active_bone)) % Len(pre_bones)
    ELSE (C1_Key(pre_active_bone) - C1_Key(b)) % Len(pre_bones)

C1_Eligible(b) ==
    b # pre_active_bone /\ ~pre_bones[b].hide /\ ~pre_bones[b].hide_select

\* C1: after the bone cycle operator, the active bone is the first bone after the
\* old active bone, in the cyclic order the call goes through (wrapping, the old
\* active bone excluded), whose hide and hide_select are both false: every hidden
\* or selection-hidden sibling in between is skipped.  With no such bone the
\* active bone stays.
C1_NextVisibleSibling ==
    call.op = "bone_cycle_hierarchy" =>
        IF \E b \in 1..Len(pre_bones) : C1_Eligible(b)
        THEN /\ C1_Eligible(active_bone)
             /\ \A b \in 1..Len(pre_bones) :
                    C1_Eligible(b) => C1_Steps(active_bone) <= C1_Steps(b)
        ELSE active_bone = pre_active_bone

\* C1 witness: a forward cycle that wrapped around the end of the list and
\* skipped a hidden and a selection-hidden sibling on the way.
C1_Witness ==
    /\ call.op = "bone_cycle_hierarchy"
    /\ call.direction = "FORWARDS"
    /\ active_bone # pre_active_bone
    /\ C1_Key(active_bone) < C1_Key(pre_active_bone)
    /\ \E b \in 1..Len(pre_bones) :
          b # pre_active_bone /\ C1_Steps(b) < C1_Steps(active_bone) /\ pre_bones[b].hide_select
          /\ ~pre_bones[b].hide

(***************************************************************************)
(* Numbers: exact fractions [n, d] in lowest terms with d > 0, standing    *)
(* for one component of a mathutils.Vector.                                *)
(***************************************************************************)
RECURSIVE GCD(_, _)
GCD(a, b) == IF b = 0 THEN a ELSE GCD(b, a % b)

Abs(x) == IF x < 0 THEN -x ELSE x

Rat(n, d) ==
    LET g == GCD(Abs(n), Abs(d))
        sg == IF d < 0 THEN -1 ELSE 1
    IN  [n |-> (sg * n) \div g, d |-> (sg * d) \div g]

RInt(k) == [n |-> k, d |-> 1]

RAdd(a, b) == Rat(a.n * b.d + b.n * a.d, a.d * b.d)
RSub(a, b) == Rat(a.n * b.d - b.n * a.d, a.d * b.d)
RMul(a, b) == Rat(a.n * b.n, a.d * b.d)
\* Vector / int
RDivInt(a, k) == Rat(a.n, a.d * k)

\* any(vector): some component is not zero
VecAny(a) == a.n # 0

\* Vector.lerp(other, factor)
Lerp(a, b, factor) == RAdd(RMul(RSub(RInt(1), factor), a), RMul(factor, b))

(***************************************************************************)
(* Meshes in edit mode (ExtraShapeKeyOperations.py and the scripts on      *)
(* shape keys).  A mesh object is a record                                 *)
(*   key_blocks   the names of me.shape_keys.key_blocks, in order; <<>>    *)
(*                when me.shape_keys is None.  key_blocks[1] is the        *)
(*                reference key                                            *)
(*   use_relative me.shape_keys.use_relative                               *)
(*   active       obj.active_shape_key_index, counted from 1 (0: none)     *)
(*   relative_key relative_key[k] is the place of the key that key k is    *)
(*                relative to                                              *)
(*   active_vert  bm.select_history.active when it is a vertex, else 0     *)
(*   verts        the vertices of the edit mesh: select, hide, co and      *)
(*                shape[k], the value in the shape layer of key k          *)
(***************************************************************************)
\* Largest coordinate of a vertex in the initial states
MaxCo == 1

KeyBlocks == <<"Basis", "Key 1", "Key 2">>
NumKeys == Len(KeyBlocks)
\* A name that is no shape key of any mesh
KeyNames == SeqToSet(KeyBlocks) \cup {"Key 9"}

\* key_blocks.find(name): the place of the key, 0 when there is none (-1 in the host)
Find(key_blocks, name) ==
    IF \E i \in 1..Len(key_blocks) : key_blocks[i] = name
    THEN CHOOSE i \in 1..Len(key_blocks) : key_blocks[i] = name
    ELSE 0

\* me.total_vert_sel
TotalVertSel(obj) == Cardinality({v \in DOMAIN obj.verts : obj.verts[v].select})

\* A mutant of the vertex filter: hidden vertices are not left out
SelectedOnly(bv) == bv.select

\* (bv for bv in bm.verts if bv.select and not bv.hide)
SelectedVisible(bv) == bv.select /\ ~bv.hide

\* The shape layer values of a vertex in the initial states: layer k holds k - 1,
\* or, for a vertex whose layers are varied, any value of 0..1.
FixedShape == [k \in 1..NumKeys |-> RInt(k - 1)]

VertStates(shapes) ==
    [select : BOOLEAN, hide : BOOLEAN, co : {RInt(c) : c \in 0..MaxCo}, shape : shapes]

\* context.mode == 'EDIT_MESH' (OperatorBase.poll_mode)
PollMode == objects # <<>>

(***************************************************************************)
(* ClearPendingChanges                                                     *)
(***************************************************************************)
ClearPendingChangesPoll ==
    /\ PollMode
    /\ \A o \in DOMAIN objects : objects[o].key_blocks # <<>>

ClearVertex(bv, active_shape_layer) ==
    IF SelectedVisible(bv) THEN [bv EXCEPT !.co = bv.shape[active_shape_layer]] ELSE bv

ClearObject(obj) ==
    IF TotalVertSel(obj) = 0 THEN obj
    ELSE [obj EXCEPT !.verts = [v \in DOMAIN obj.verts |-> ClearVertex(obj.verts[v], obj.active)]]

\* ClearPendingChanges.execute
ClearPendingChangesExecute ==
    /\ call = NoCall
    /\ ClearPendingChangesPoll
    /\ call' = [op |-> "clear_pending_shape_key_changes"]
    /\ pre_objects' = objects
    /\ objects' = [o \in DOMAIN objects |-> ClearObject(objects[o])]
    /\ result' = [status |-> "FINISHED", reports |-> <<>>]
    /\ UNCHANGED not_mesh_vars

(***************************************************************************)
(* TransferPendingChanges                                                  *)
(***************************************************************************)

\* TransferPendingChanges.poll
TransferPendingChangesPoll ==
    /\ PollMode
    /\ Len(objects[1].key_blocks) >= 2

NotFoundMessage(name) == <<"Shape key '", name, "' not found">>
TargetIsActiveMessage == "The shape key to transfer to must not be the active shape key"

\* A mutant: the check that the target is not the active shape key is left out
TargetIsNeverActive(obj, shape_key_name) == FALSE

\* self.shape_key_name == obj.active_shape_key.name
TargetIsActive(obj, shape_key_name) == shape_key_name = obj.key_blocks[obj.active]

\* A mutant of the ADD loop: the coordinate is not reset, so the pending change
\* is copied, not moved
TransferAddKeepCo(bv, active_shape_layer, other_shape_layer) ==
    LET pending_change == RSub(bv.co, bv.shape[active_shape_layer])
    IN  IF VecAny(pending_change)
        THEN [bv EXCEPT !.shape[other_shape_layer] = RAdd(@, pending_change)]
        ELSE bv

\* The body of the loop of mode ADD
TransferAdd(bv, active_shape_layer, other_shape_layer) ==
    LET pending_change == RSub(bv.co, bv.shape[active_shape_layer])
        added == [bv.shape EXCEPT ![other_shape_layer] = RAdd(@, pending_change)]
    IN  IF VecAny(pending_change)
        THEN [bv EXCEPT !.shape = added, !.co = added[active_shape_layer]]
        ELSE bv

\* The body of the loop of mode REPLACE
TransferReplace(bv, active_shape_layer, other_shape_layer) ==
    LET replaced == [bv.shape EXCEPT ![other_shape_layer] = bv.co]
    IN  [bv EXCEPT !.shape = replaced, !.co = replaced[active_shape_layer]]

\* The body of the loop of mode REPLACE_CHANGED
TransferReplaceChanged(bv, active_shape_layer, other_shape_layer) ==
    LET pre_change_active_co == bv.shape[active_shape_layer]
    IN  IF bv.co # pre_change_active_co
        THEN [bv EXCEPT !.shape[other_shape_layer] = bv.co, !.co = pre_change_active_co]
        ELSE bv

TransferVertex(bv, mode, active_shape_layer, other_shape_layer) ==
    IF ~SelectedVisible(bv) THEN bv
    ELSE IF mode = "ADD" THEN TransferAdd(bv, active_shape_layer, other_shape_layer)
    ELSE IF mode = "REPLACE" THEN TransferReplace(bv, active_shape_layer, other_shape_layer)
    ELSE TransferReplaceChanged(bv, active_shape_layer, other_shape_layer)

\* obj.active_shape_key_index at the end of execute
ActiveAfterTransfer(obj, swap_after_execute, shape_key_name) ==
    IF swap_after_execute THEN Find(obj.key_blocks, shape_key_name) ELSE obj.active

\* TransferPendingChanges.execute.  The mode is an EnumProperty: the branch for
\* an unexpected mode cannot be reached.
TransferPendingChangesExecute(mode, shape_key_name, swap_after_execute) ==
    LET obj == objects[1]
        other_shape_layer == Find(obj.key_blocks, shape_key_name)
        transferred ==
            [obj EXCEPT
                !.verts = [v \in DOMAIN obj.verts |->
                              TransferVertex(obj.verts[v], mode, obj.active, other_shape_layer)],
                !.active = ActiveAfterTransfer(obj, swap_after_execute, shape_key_name)]
    IN  /\ call = NoCall
        /\ TransferPendingChangesPoll
        /\ call' = [op |-> "transfer_pending_shape_key_changes", mode |-> mode,
                    shape_key_name |-> shape_key_name,
                    swap_after_execute |-> swap_after_execute]
        /\ pre_objects' = objects
        /\ UNCHANGED not_mesh_vars
        /\ IF Find(obj.key_blocks, shape_key_name) = 0
           THEN /\ result' = [status |-> "FINISHED",
                              reports |-> << <<"ERROR_INVALID_INPUT", NotFoundMessage(shape_key_name)>> >>]
                /\ UNCHANGED objects
           ELSE IF TargetIsActive(obj, shape_key_name)
           THEN /\ result' = [status |-> "FINISHED",
                              reports |-> << <<"ERROR_INVALID_INPUT", TargetIsActiveMessage>> >>]
                /\ UNCHANGED objects
           ELSE IF TotalVertSel(obj) = 0
           THEN /\ result' = [status |-> "FINISHED", reports |-> <<>>]
                /\ UNCHANGED objects
           ELSE /\ result' = [status |-> "FINISHED", reports |-> <<>>]
                /\ objects' = [objects EXCEPT ![1] = transferred]

(***************************************************************************)
(* transferPendingEditChanges.py: the script, run on the active object.    *)
(* bv[layer] gives a Vector of the host; whether it is a copy of the       *)
(* layer's value or a view of the layer's memory is the host's choice, and *)
(* it shows when key_name is the active shape key: `aliased` is that       *)
(* choice.                                                                 *)
(***************************************************************************)
ScriptVertex(bv, active_shape_layer, transfer_to_shape_layer, aliased) ==
    LET active_co == bv.shape[active_shape_layer]
        pending_co == bv.co
        difference == RSub(pending_co, active_co)
        added == [bv.shape EXCEPT ![transfer_to_shape_layer] = RAdd(@, difference)]
    IN  IF pending_co # active_co
        THEN [bv EXCEPT !.shape = added,
                        !.co = IF aliased THEN added[active_shape_layer] ELSE active_co]
        ELSE bv

\* The whole script; bm.verts.layers.shape[key_name] raises KeyError for a name
\* that is no shape key.
TransferPendingEditChangesScript(key_name, aliased) ==
    LET obj == objects[1]
        transfer_to_shape_layer == Find(obj.key_blocks, key_name)
    IN  /\ call = NoCall
        /\ PollMode
        /\ obj.key_blocks # <<>>
        /\ call' = [op |-> "transferPendingEditChanges", key_name |-> key_name]
        /\ pre_objects' = objects
        /\ UNCHANGED not_mesh_vars
        /\ IF transfer_to_shape_layer = 0
           THEN /\ result' = [status |-> "KeyError", reports |-> <<>>]
                /\ UNCHANGED objects
           ELSE /\ result' = [status |-> "DONE", reports |-> <<>>]
                /\ objects' = [objects EXCEPT ![1].verts =
                                  [v \in DOMAIN obj.verts |->
                                      ScriptVertex(obj.verts[v], obj.active,
                                                   transfer_to_shape_layer, aliased)]]

(***************************************************************************)
(* Initial documents                                                       *)
(***************************************************************************)
\* A mesh object with shape keys KeyBlocks, every key relative to the reference key
KeyedObject(active, active_vert, verts) ==
    [key_blocks |-> KeyBlocks, use_relative |-> TRUE, active |-> active,
     relative_key |-> [k \in 1..NumKeys |-> 1], active_vert |-> active_vert,
     verts |-> verts]

\* One mesh in edit mode, with two vertices; the layers of the first are varied
InitTransfer ==
    /\ call = NoCall
    /\ result = NoResult
    /\ NoBones
    /\ NoUVMeshes
    /\ \E active \in 1..NumKeys :
       \E v1 \in VertStates([1..NumKeys -> {RInt(0), RInt(1)}]), v2 \in VertStates({FixedShape}) :
          objects = << KeyedObject(active, 0, <<v1, v2>>) >>
    /\ pre_objects = objects

NextTransfer ==
    \/ \E mode \in {"ADD", "REPLACE", "REPLACE_CHANGED"}, shape_key_name \in KeyNames,
          swap_after_execute \in BOOLEAN :
          TransferPendingChangesExecute(mode, shape_key_name, swap_after_execute)
    \/ \E key_name \in KeyNames, aliased \in BOOLEAN :
          TransferPendingEditChangesScript(key_name, aliased)

SpecTransfer == InitTransfer /\ [][NextTransfer]_vars

\* Two meshes in edit mode, of two vertices and of one
InitClear ==
    /\ call = NoCall
    /\ result = NoResult
    /\ NoBones
    /\ NoUVMeshes
    /\ \E a1 \in 1..NumKeys, a2 \in 1..NumKeys :
       \E v1 \in VertStates([1..NumKeys -> {RInt(0), RInt(1)}]), v2 \in VertStates({FixedShape}),
          w1 \in VertStates({FixedShape}) :
          objects = << KeyedObject(a1, 0, <<v1, v2>>), KeyedObject(a2, 0, <<w1>>) >>
    /\ pre_objects = objects

NextClear == ClearPendingChangesExecute

SpecClear == InitClear /\ [][NextClear]_vars

\* ---- C3 ----
\* C3: TransferPendingChanges.execute with a shape_key_name that is no shape key
\* of the active mesh, or that names the active shape key, reports one
\* ERROR_INVALID_INPUT message and changes nothing: no coordinate, no shape layer
\* value, not the active shape key index.
C3_InvalidTargetDeclined ==
    (/\ call.op = "transfer_pending_shape_key_changes"
     /\ \/ Find(pre_objects[1].key_blocks, call.shape_key_name) = 0
        \/ call.shape_key_name = pre_objects[1].key_blocks[pre_objects[1].active])
    => /\ Len(result.reports) = 1
       /\ result.reports[1][1] = "ERROR_INVALID_INPUT"
       /\ objects = pre_objects

\* C3 witness: the target was the active shape key while a selected, visible
\* vertex had a pending change to transfer, and the error was reported.
C3_Witness ==
    /\ call.op = "transfer_pending_shape_key_changes"
    /\ call.shape_key_name = pre_objects[1].key_blocks[pre_objects[1].active]
    /\ \E v \in DOMAIN pre_objects[1].verts :
          /\ SelectedVisible(pre_objects[1].verts[v])
          /\ pre_objects[1].verts[v].co # pre_objects[1].verts[v].shape[pre_objects[1].active]
    /\ result.reports = << <<"ERROR_INVALID_INPUT", TargetIsActiveMessage>> >>

\* ---- C6 ----
\* C6: after ClearPendingChanges.execute every selected, non-hidden vertex of
\* every mesh in edit mode has the coordinate stored for it in the layer of the
\* active shape key; unselected vertices, hidden vertices and all shape layer
\* values are as before.
C6_PendingCleared ==
    call.op = "clear_pending_shape_key_changes" =>
        /\ DOMAIN objects = DOMAIN pre_objects
        /\ \A o \in DOMAIN objects :
              /\ objects[o].active = pre_objects[o].active
              /\ DOMAIN objects[o].verts = DOMAIN pre_objects[o].verts
              /\ \A v \in DOMAIN objects[o].verts :
                    LET old == pre_objects[o].verts[v]
                        new == objects[o].verts[v]
                    IN  /\ new.shape = old.shape
                        /\ IF old.select /\ ~old.hide
                           THEN new.co = old.shape[pre_objects[o].active]
                           ELSE new.co = old.co

\* C6 witness: in both meshes a selected, visible vertex had a pending change that
\* is now cleared, and a selected but hidden vertex kept its pending change.
C6_Witness ==
    /\ call.op = "clear_pending_shape_key_changes"
    /\ \A o \in DOMAIN objects : \E v \in DOMAIN objects[o].verts :
          /\ SelectedVisible(pre_objects[o].verts[v])
          /\ pre_objects[o].verts[v].co # pre_objects[o].verts[v].shape[pre_objects[o].active]
          /\ objects[o].verts[v].co = objects[o].verts[v].shape[objects[o].active]
    /\ \E v \in DOMAIN objects[1].verts :
          /\ objects[1].verts[v].select
          /\ objects[1].verts[v].hide
          /\ objects[1].verts[v].co # objects[1].verts[v].shape[objects[1].active]

\* ---- C7 ----
\* The call was a transfer in mode ADD to an existing shape key: the operator
\* (which goes on only when the target is not the active key) or the script.
C7_IsOperatorAdd ==
    /\ call.op = "transfer_pending_shape_key_changes"
    /\ call.mode = "ADD"
    /\ Find(pre_objects[1].key_blocks, call.shape_key_name) # 0
    /\ call.shape_key_name # pre_objects[1].key_blocks[pre_objects[1].active]

C7_IsScript ==
    /\ call.op = "transferPendingEditChanges"
    /\ Find(pre_objects[1].key_blocks, call.key_name) # 0

C7_Target ==
    Find(pre_objects[1].key_blocks,
         IF call.op = "transferPendingEditChanges" THEN call.key_name ELSE call.shape_key_name)

\* The vertices the call goes through
C7_Processed(bv) == call.op = "transferPendingEditChanges" \/ (bv.select /\ ~bv.hide)

\* The pending change of every processed vertex was moved to the target layer
C7_Moved ==
    \A v \in DOMAIN pre_objects[1].verts :
        LET old == pre_objects[1].verts[v]
            new == objects[1].verts[v]
            d == RSub(old.co, old.shape[pre_objects[1].active])
        IN  IF d # RInt(0)
            THEN C7_Processed(old) =>
                    /\ new.shape[C7_Target] = RAdd(old.shape[C7_Target], d)
                    /\ new.co = old.shape[pre_objects[1].active]
                    /\ RAdd(new.co, new.shape[C7_Target]) = RAdd(old.co, old.shape[C7_Target])
            ELSE /\ new.co = old.co
                 /\ new.shape[C7_Target] = old.shape[C7_Target]

C8_SwapAfterExecute ==
    (/\ call.op = "transfer_pending_shape_key_changes"
     /\ Find(pre_objects[1].key_blocks, call.shape_key_name) # 0
     /\ call.shape_key_name # pre_objects[1].key_blocks[pre_objects[1].active])
    => IF call.swap_after_execute
       THEN objects[1].key_blocks[objects[1].active] = call.shape_key_name
       ELSE objects[1].active = pre_objects[1].active

(***************************************************************************)
(* AverageShapeKeyMovement                                                 *)
(***************************************************************************)
\* Values of the mix property (a float; soft limits -2.0 and 2.0)

\* object_has_relative_shape_keys_and_active_shape_is_not_basis_like
ObjectHasRelativeShapeKeysAndActiveShapeIsNotBasisLike(obj) ==
    /\ obj.key_blocks # <<>>
    /\ obj.use_relative
    /\ obj.relative_key[obj.active] # obj.active
    /\ obj.active # 1

\* AverageShapeKeyMovement.poll
AverageShapeKeyMovementPoll ==
    /\ PollMode
    /\ \E o \in DOMAIN objects :
          ObjectHasRelativeShapeKeysAndActiveShapeIsNotBasisLike(objects[o])

\* A mutant: a mesh whose active shape key is relative to itself is not skipped
AverageSkipsNotSelfRelative(obj) ==
    IF obj.key_blocks = <<>> THEN TRUE
    ELSE IF ~obj.use_relative \/ obj.active = 1 THEN TRUE
    ELSE TotalVertSel(obj) = 0

\* The three `continue` of the loop over the objects
AverageSkips(obj) ==
    IF obj.key_blocks = <<>> \/ obj.relative_key[obj.active] = obj.active THEN TRUE
    ELSE IF ~obj.use_relative \/ obj.active = 1 THEN TRUE
    ELSE TotalVertSel(obj) = 0

\* The vertices gathered in all_selected_bmverts, as <<object, vertex>>
AllSelectedBmverts ==
    {ov \in UNION {{<<o, v>> : v \in DOMAIN objects[o].verts} : o \in DOMAIN objects} :
        /\ ~AverageSkips(objects[ov[1]])
        /\ SelectedVisible(objects[ov[1]].verts[ov[2]])}

\* relative_co and movement of a gathered vertex
RelativeCo(obj, bv) == bv.shape[obj.relative_key[obj.active]]
Movement(obj, bv) == RSub(bv.co, RelativeCo(obj, bv))

RECURSIVE SumMovement(_)
SumMovement(entries) ==
    IF entries = {} THEN RInt(0)
    ELSE LET e == CHOOSE e \in entries : TRUE
         IN  RAdd(Movement(objects[e[1]], objects[e[1]].verts[e[2]]),
                  SumMovement(entries \ {e}))

\* A mutant of the blend: the arguments of lerp are exchanged
AveragedCoSwapped(obj, bv, average_movement, mix) ==
    IF mix = RInt(1) THEN RAdd(RelativeCo(obj, bv), average_movement)
    ELSE RAdd(RelativeCo(obj, bv), Lerp(average_movement, Movement(obj, bv), mix))

\* The coordinate written to a gathered vertex
AveragedCo(obj, bv, average_movement, mix) ==
    IF mix = RInt(1) THEN RAdd(RelativeCo(obj, bv), average_movement)
    ELSE RAdd(RelativeCo(obj, bv), Lerp(Movement(obj, bv), average_movement, mix))

\* AverageShapeKeyMovement.execute
AverageShapeKeyMovementExecute(mix) ==
    LET entries == AllSelectedBmverts
        average_movement == RDivInt(SumMovement(entries), Cardinality(entries))
    IN  /\ call = NoCall
        /\ AverageShapeKeyMovementPoll
        /\ call' = [op |-> "average_shape_key_movement", mix |-> mix]
        /\ pre_objects' = objects
        /\ UNCHANGED not_mesh_vars
        /\ result' = [status |-> "FINISHED", reports |-> <<>>]
        /\ IF mix = RInt(0) \/ entries = {}
           THEN UNCHANGED objects
           ELSE objects' =
                  [o \in DOMAIN objects |->
                      [objects[o] EXCEPT !.verts =
                          [v \in DOMAIN objects[o].verts |->
                              IF <<o, v>> \in entries
                              THEN [objects[o].verts[v] EXCEPT !.co =
                                      AveragedCo(objects[o], objects[o].verts[v],
                                                 average_movement, mix)]
                              ELSE objects[o].verts[v]]]]

\* A mesh object without shape keys
UnkeyedObject(active_vert, verts) ==
    [key_blocks |-> <<>>, use_relative |-> FALSE, active |-> 0, relative_key |-> <<>>,
     active_vert |-> active_vert,
     verts |-> [v \in DOMAIN verts |-> [verts[v] EXCEPT !.shape = <<>>]]]

\* The shape key settings of the initial meshes: no shape keys; the reference key
\* active; "Key 1" active and relative to the reference key, with relative and
\* with absolute shape keys; "Key 1" active and relative to itself; "Key 2"
\* active and relative to "Key 1".
MeshObjects(active_vert, verts) ==
    {UnkeyedObject(active_vert, verts)} \cup
    {[KeyedObject(c[1], active_vert, verts) EXCEPT !.use_relative = c[2], !.relative_key = c[3]] :
        c \in {<<1, TRUE, <<1, 1, 1>> >>, <<2, TRUE, <<1, 1, 1>> >>, <<2, FALSE, <<1, 1, 1>> >>,
               <<2, TRUE, <<1, 2, 1>> >>, <<3, TRUE, <<1, 1, 2>> >>}}

\* Two meshes in edit mode, of two vertices and of one
InitAverage ==
    /\ call = NoCall
    /\ result = NoResult
    /\ NoBones
    /\ NoUVMeshes
    /\ \E v1 \in VertStates({FixedShape}), v2 \in VertStates({FixedShape}),
          w1 \in VertStates({FixedShape}) :
       \E obj1 \in MeshObjects(0, <<v1, v2>>), obj2 \in MeshObjects(0, <<w1>>) :
          objects = <<obj1, obj2>>
    /\ pre_objects = objects

NextAverage == \E mix \in {RInt(0), Rat(1, 2), RInt(1), RInt(2)} : AverageShapeKeyMovementExecute(mix)

SpecAverage == InitAverage /\ [][NextAverage]_vars

\* ---- C9 and C10 ----
\* The meshes the claim names as skipped: no shape keys, the active shape key is
\* the reference key, or the active shape key is relative to itself
C9_NamedSkipped(obj) ==
    \/ obj.key_blocks = <<>>
    \/ obj.active = 1
    \/ obj.relative_key[obj.active] = obj.active

\* The selected, non-hidden vertices, before the call, of the meshes in `meshes`
C9_Vertices(meshes) ==
    {ov \in UNION {{<<o, v>> : v \in DOMAIN pre_objects[o].verts} : o \in meshes} :
        pre_objects[ov[1]].verts[ov[2]].select /\ ~pre_objects[ov[1]].verts[ov[2]].hide}

\* The value, before the call, of vertex ov in the key its active key is relative to
C9_Relative(ov) ==
    pre_objects[ov[1]].verts[ov[2]].shape[pre_objects[ov[1]].relative_key[pre_objects[ov[1]].active]]

C9_MovementBefore(ov) == RSub(pre_objects[ov[1]].verts[ov[2]].co, C9_Relative(ov))
C9_MovementAfter(ov) == RSub(objects[ov[1]].verts[ov[2]].co, C9_Relative(ov))

RECURSIVE C9_SumBefore(_)
C9_SumBefore(vertices) ==
    IF vertices = {} THEN RInt(0)
    ELSE LET ov == CHOOSE ov \in vertices : TRUE
         IN  RAdd(C9_MovementBefore(ov), C9_SumBefore(vertices \ {ov}))

RECURSIVE C9_SumAfter(_)
C9_SumAfter(vertices) ==
    IF vertices = {} THEN RInt(0)
    ELSE LET ov == CHOOSE ov \in vertices : TRUE
         IN  RAdd(C9_MovementAfter(ov), C9_SumAfter(vertices \ {ov}))

\* Every vertex of `vertices` was blended towards the mean movement of `vertices`:
\* with n vertices of movements m, n * (m' - m) = mix * (sum - n * m)
C9_Blended(vertices) ==
    \A ov \in vertices :
        RMul(RInt(Cardinality(vertices)), RSub(C9_MovementAfter(ov), C9_MovementBefore(ov)))
        = RMul(call.mix, RSub(C9_SumBefore(vertices),
                              RMul(RInt(Cardinality(vertices)), C9_MovementBefore(ov))))

C9_SkippedUntouched ==
    \A o \in DOMAIN pre_objects : C9_NamedSkipped(pre_objects[o]) => objects[o] = pre_objects[o]

\* C9 as claimed: AverageShapeKeyMovement.execute skips every mesh without shape
\* keys, with the reference key active or with the active key relative to itself:
\* such a mesh is not changed and its vertices are not in the average; all the
\* other meshes in edit mode are processed.
C9_SkipsNamedMeshesOnly ==
    call.op = "average_shape_key_movement" =>
        /\ C9_SkippedUntouched
        /\ C9_Blended(C9_Vertices({o \in DOMAIN pre_objects : ~C9_NamedSkipped(pre_objects[o])}))

\* C9 amended: the same, where the other meshes that are processed are those whose
\* shape keys are relative; a mesh with absolute shape keys is skipped as well.
C9_SkipsNamedAndAbsoluteMeshes ==
    call.op = "average_shape_key_movement" =>
        /\ C9_SkippedUntouched
        /\ \A o \in DOMAIN pre_objects : ~pre_objects[o].use_relative => objects[o] = pre_objects[o]
        /\ C9_Blended(C9_Vertices({o \in DOMAIN pre_objects :
                                      /\ ~C9_NamedSkipped(pre_objects[o])
                                      /\ pre_objects[o].use_relative}))

\* C9 witness: the second mesh has its active key relative to itself and a
\* selected, visible vertex that is off its active key's value; the first mesh
\* was processed and a vertex of it moved.
C9_Witness ==
    /\ call.op = "average_shape_key_movement"
    /\ pre_objects[2].key_blocks # <<>>
    /\ pre_objects[2].active # 1
    /\ pre_objects[2].relative_key[pre_objects[2].active] = pre_objects[2].active
    /\ \E v \in DOMAIN pre_objects[2].verts :
          /\ SelectedVisible(pre_objects[2].verts[v])
          /\ C9_MovementBefore(<<2, v>>) # RInt(0)
    /\ objects[1] # pre_objects[1]

\* The meshes that are processed, and their selected, non-hidden vertices
C10_Processed ==
    {o \in DOMAIN pre_objects :
        /\ ~C9_NamedSkipped(pre_objects[o])
        /\ pre_objects[o].use_relative}

C10_Mean ==
    RDivInt(C9_SumBefore(C9_Vertices(C10_Processed)), Cardinality(C9_Vertices(C10_Processed)))

\* C10: AverageShapeKeyMovement.execute replaces the movement m of every selected,
\* non-hidden vertex of the processed meshes by m + mix * (a - m), a the mean of
\* these movements over all processed meshes together: with mix = 1 all of them
\* end with the movement a, with mix = 0 nothing changes, and the sum of the
\* movements is kept for every mix.
C10_MovementAveraged ==
    call.op = "average_shape_key_movement" =>
        /\ \A ov \in C9_Vertices(C10_Processed) :
              /\ C9_MovementAfter(ov)
                 = RAdd(C9_MovementBefore(ov),
                        RMul(call.mix, RSub(C10_Mean, C9_MovementBefore(ov))))
              /\ call.mix = RInt(1) => C9_MovementAfter(ov) = C10_Mean
        /\ call.mix = RInt(0) => objects = pre_objects
        /\ C9_SumAfter(C9_Vertices(C10_Processed)) = C9_SumBefore(C9_Vertices(C10_Processed))

\* C10 witness: a mix that is neither 0 nor 1 over vertices of two processed meshes
\* with different movements; a coordinate that is not a whole number came out.
C10_Witness ==
    /\ call.op = "average_shape_key_movement"
    /\ call.mix = RInt(2)
    /\ C10_Processed = {1, 2}
    /\ \E v \in DOMAIN objects[1].verts : objects[1].verts[v].co.d # 1
    /\ \E ov \in C9_Vertices({1}) : \E ow \in C9_Vertices({2}) :
          C9_MovementBefore(ov) # C9_MovementBefore(ow)

(***************************************************************************)
(* CopyUVsToOtherUVMap.py.  A mesh is a record                             *)
(*   name       mesh.name                                                  *)
(*   uv_layers  mesh.uv_layers: a sequence of [name, data], data[l] the    *)
(*              entry of loop l in the layer: uv (x, y), pin_uv, select    *)
(*   active     the place of mesh.uv_layers.active (0: None, no UV layer)  *)
(*   faces      the faces: select, and loops, the loops of the face        *)
(***************************************************************************)
\* Hardcoded Blender limit
max_uv_layers == 8

selected_filter_id == "SELECTED"
pin_filter_id == "PINNED"

copy_x_id == "X"
copy_y_id == "Y"
copy_uv_id == "UV"
copy_pin_id == "PIN"
copy_select_id == "SELECT"
copy_x_and_y_set == {copy_x_id, copy_y_id}

not_found_action_create == "CREATE"
not_found_action_create_init == "CREATE_INIT"
not_found_action_skip == "SKIP"
not_found_action_create_set == {not_found_action_create, not_found_action_create_init}

success_message == "UV Copy To...: UVs copied"
no_changes_message == "UV Copy To...: No changes made"
MaximumMessage(target, mesh_name) ==
    <<"The UV Map '", target, "' can't be added to the mesh '", mesh_name,
      "' because it already has the maximum number of UV Maps (", max_uv_layers,
      "). Execution has been cancelled.">>

\* all(filter_func(active_loop) for filter_func in filter_funcs)
AllFiltersPass(source_bm_loop_uv, filter) ==
    /\ selected_filter_id \in filter => source_bm_loop_uv.select
    /\ pin_filter_id \in filter => source_bm_loop_uv.pin_uv

\* The attributes after X and Y together are replaced by UV
CopiedAttributes(attributes) ==
    IF copy_x_and_y_set \subseteq attributes
    THEN (attributes \ copy_x_and_y_set) \cup {copy_uv_id}
    ELSE attributes

\* The target loop entry after every attribute_copy_func
CopyAttributes(source_bm_loop_uv, target_bm_loop_uv, attributes) ==
    [uv |-> [x |-> IF {copy_x_id, copy_uv_id} \cap CopiedAttributes(attributes) # {}
                   THEN source_bm_loop_uv.uv.x ELSE target_bm_loop_uv.uv.x,
             y |-> IF {copy_y_id, copy_uv_id} \cap CopiedAttributes(attributes) # {}
                   THEN source_bm_loop_uv.uv.y ELSE target_bm_loop_uv.uv.y],
     pin_uv |-> IF copy_pin_id \in CopiedAttributes(attributes)
                THEN source_bm_loop_uv.pin_uv ELSE target_bm_loop_uv.pin_uv,
     select |-> IF copy_select_id \in CopiedAttributes(attributes)
                THEN source_bm_loop_uv.select ELSE target_bm_loop_uv.select]

\* target in mesh.uv_layers, and its place
HasUVLayer(mesh, target) == \E i \in 1..Len(mesh.uv_layers) : mesh.uv_layers[i].name = target
UVLayerIndex(mesh, target) == CHOOSE i \in 1..Len(mesh.uv_layers) : mesh.uv_layers[i].name = target

\* The loops of the mesh
MeshLoops(mesh) == UNION {SeqToSet(mesh.faces[f].loops) : f \in 1..Len(mesh.faces)}

DefaultLoopUV == [uv |-> [x |-> 0, y |-> 0], pin_uv |-> FALSE, select |-> FALSE]

\* mesh.uv_layers.new(name=target, do_init=init_during_create): the new layer comes
\* last; with do_init it is a copy of the active layer; it is the active layer
\* when it is the only one
UVLayersNew(mesh, target, do_init) ==
    [mesh EXCEPT
        !.uv_layers = Append(@, [name |-> target,
                                 data |-> IF do_init /\ mesh.active # 0
                                          THEN mesh.uv_layers[mesh.active].data
                                          ELSE [l \in MeshLoops(mesh) |-> DefaultLoopUV]]),
        !.active = IF mesh.active = 0 THEN 1 ELSE @]

\* A mutant of the room check: one UV layer too many is let through
HasNoRoomOffByOne(mesh) == Len(mesh.uv_layers) > max_uv_layers

\* len(uv_layers) >= max_uv_layers
HasNoRoom(mesh) == Len(mesh.uv_layers) >= max_uv_layers

\* The faces visible in the UV editor
VisibleFaces(mesh, sync) == {f \in 1..Len(mesh.faces) : sync \/ mesh.faces[f].select}

\* The loops of mesh whose attributes are copied
CopiedLoops(mesh, filter, sync) ==
    {l \in MeshLoops(mesh) :
        /\ \E f \in VisibleFaces(mesh, sync) : l \in SeqToSet(mesh.faces[f].loops)
        /\ AllFiltersPass(mesh.uv_layers[mesh.active].data[l], filter)}

\* The body of the loop over the meshes for a mesh that passes the test of line 214
CopyToTarget(mesh, target, filter, attributes, sync) ==
    [mesh EXCEPT !.uv_layers[UVLayerIndex(mesh, target)].data =
        [l \in MeshLoops(mesh) |->
            IF l \in CopiedLoops(mesh, filter, sync)
            THEN CopyAttributes(mesh.uv_layers[mesh.active].data[l], @[l], attributes)
            ELSE @[l]]]

\* MYSTERYEM_copy_uvs_to_other_uvmap.execute.  me.uv_layers.active is None for a
\* mesh without UV layers: line 214 raises AttributeError there, and the meshes
\* after it are not reached.
CopyUVsExecute(target, filter, attributes, not_found_action) ==
    LET create_target_when_missing == not_found_action \in not_found_action_create_set
        init_during_create == not_found_action = not_found_action_create_init
        Needs(i) == create_target_when_missing /\ ~HasUVLayer(uv_meshes[i], target)
        full == {i \in DOMAIN uv_meshes : Needs(i) /\ HasNoRoom(uv_meshes[i])}
        first_full == CHOOSE i \in full : \A j \in full : i <= j
        need_target_creation_meshes == {i \in DOMAIN uv_meshes : Needs(i)}
        created == [i \in DOMAIN uv_meshes |->
                       IF Needs(i) THEN UVLayersNew(uv_meshes[i], target, init_during_create)
                       ELSE uv_meshes[i]]
        raising == {i \in DOMAIN uv_meshes : created[i].active = 0}
        reached == {i \in DOMAIN uv_meshes : \A j \in raising : i < j}
        Passes(i) ==
            /\ created[i].uv_layers[created[i].active].name # target
            /\ MeshLoops(created[i]) # {}
            /\ HasUVLayer(created[i], target)
            /\ ~(Needs(i) /\ init_during_create)
        copied == [i \in DOMAIN uv_meshes |->
                      IF i \in reached /\ Passes(i)
                      THEN CopyToTarget(created[i], target, filter, attributes, uv_select_sync)
                      ELSE created[i]]
        attributes_modified ==
            \E i \in reached : Passes(i) /\ CopiedLoops(created[i], filter, uv_select_sync) # {}
    IN  /\ call = NoCall
        /\ uv_meshes # <<>>
        /\ call' = [op |-> "uv_copy_to_other_uvmap", target |-> target, filter |-> filter,
                    attributes |-> attributes, not_found_action |-> not_found_action]
        /\ pre_uv_meshes' = uv_meshes
        /\ UNCHANGED <<uv_select_sync, not_uv_vars>>
        /\ IF full # {}
           THEN /\ result' = [status |-> "FINISHED",
                              reports |-> << <<"ERROR_INVALID_INPUT",
                                               MaximumMessage(target, uv_meshes[first_full].name)>> >>]
                /\ UNCHANGED uv_meshes
           ELSE IF attributes = {}
           THEN /\ result' = [status |-> "FINISHED",
                              reports |-> << <<"INFO", IF need_target_creation_meshes # {}
                                                       THEN success_message
                                                       ELSE no_changes_message>> >>]
                /\ uv_meshes' = created
           ELSE IF raising # {}
           THEN /\ result' = [status |-> "AttributeError", reports |-> <<>>]
                /\ uv_meshes' = copied
           ELSE /\ result' = [status |-> "FINISHED",
                              reports |-> << <<"INFO", IF ~attributes_modified
                                                          /\ need_target_creation_meshes = {}
                                                       THEN no_changes_message
                                                       ELSE success_message>> >>]
                /\ uv_meshes' = copied

\* The names of the UV layers of the initial meshes: "UVMap" first, then "Target"
\* or not, then further layers up to n in all
UVNames(n, with_target) ==
    LET extra == <<"UV2", "UV3", "UV4", "UV5", "UV6", "UV7", "UV8", "UV9">>
    IN  IF n = 0 THEN <<>>
        ELSE IF with_target THEN <<"UVMap", "Target">> \o SubSeq(extra, 1, n - 2)
        ELSE <<"UVMap">> \o SubSeq(extra, 1, n - 1)

\* A mesh whose layer "UVMap" holds `source` and whose other layers hold the default
UVMesh(name, names, active, faces, source) ==
    [name |-> name,
     uv_layers |-> [i \in 1..Len(names) |->
                      [name |-> names[i],
                       data |-> IF i = 1 THEN source
                                ELSE [l \in DOMAIN source |-> DefaultLoopUV]]],
     active |-> active,
     faces |-> faces]

\* The UV layers of the initial meshes, as <<names, active>>: none; "UVMap" alone;
\* "UVMap" and "Target", either one active; max_uv_layers layers without and with
\* "Target"
UVLayerSettings ==
    {<<UVNames(0, FALSE), 0>>, <<UVNames(1, FALSE), 1>>,
     <<UVNames(2, TRUE), 1>>, <<UVNames(2, TRUE), 2>>,
     <<UVNames(max_uv_layers, FALSE), 1>>, <<UVNames(max_uv_layers, TRUE), 1>>}

\* Two meshes in edit mode: one of two faces of one loop each, one of one face
InitUV ==
    /\ call = NoCall
    /\ result = NoResult
    /\ NoBones
    /\ NoMeshes
    /\ uv_select_sync \in BOOLEAN
    /\ \E s1 \in UVLayerSettings, s2 \in UVLayerSettings \ {<<UVNames(2, TRUE), 2>>,
                                                            <<UVNames(max_uv_layers, TRUE), 1>>} :
       \E l1 \in [uv : {[x |-> 1, y |-> 1]}, pin_uv : BOOLEAN, select : BOOLEAN],
          l2 \in [uv : {[x |-> 1, y |-> 1]}, pin_uv : BOOLEAN, select : BOOLEAN],
          f1 \in BOOLEAN, f2 \in BOOLEAN :
          uv_meshes =
            << UVMesh("Mesh", s1[1], s1[2],
                      <<[select |-> f1, loops |-> <<1>>], [select |-> f2, loops |-> <<2>>]>>,
                      <<l1, [uv |-> [x |-> 1, y |-> 1], pin_uv |-> TRUE, select |-> TRUE]>>),
               UVMesh("Mesh.001", s2[1], s2[2],
                      <<[select |-> TRUE, loops |-> <<1>>]>>, <<l2>>) >>
    /\ pre_uv_meshes = uv_meshes

NextUV ==
    \E target \in {"Target"}, filter \in SUBSET {selected_filter_id, pin_filter_id},
       attributes \in {{}, {copy_x_id}, {copy_x_id, copy_y_id}, {copy_pin_id},
                       {copy_y_id, copy_select_id},
                       {copy_x_id, copy_y_id, copy_pin_id, copy_select_id}},
       not_found_action \in ({not_found_action_skip} \cup not_found_action_create_set) :
        CopyUVsExecute(target, filter, attributes, not_found_action)

SpecUV == InitUV /\ [][NextUV]_vars

\* ---- C4 ----
\* Mesh i lacked the target UV map and had no room for one more
C4_Full(i) ==
    /\ \A k \in 1..Len(pre_uv_meshes[i].uv_layers) : pre_uv_meshes[i].uv_layers[k].name # call.target
    /\ Len(pre_uv_meshes[i].uv_layers) >= 8

\* C4: with not_found_action CREATE or CREATE_INIT, if a mesh in edit mode lacks
\* the target UV map and has 8 UV maps already, execute reports an error and has
\* done nothing: no UV map was created on any mesh and no UV attribute of any
\* loop was changed.
C4_NoRoomNothingDone ==
    (/\ call.op = "uv_copy_to_other_uvmap"
     /\ call.not_found_action \in {"CREATE", "CREATE_INIT"}
     /\ \E i \in DOMAIN pre_uv_meshes : C4_Full(i))
    => /\ Len(result.reports) = 1
       /\ result.reports[1][1] = "ERROR_INVALID_INPUT"
       /\ uv_meshes = pre_uv_meshes

\* C4 witness: the first mesh lacked the target and had room, the second lacked
\* it and was full; attributes were to be copied.
C4_Witness ==
    /\ call.op = "uv_copy_to_other_uvmap"
    /\ call.not_found_action \in {"CREATE", "CREATE_INIT"}
    /\ call.attributes # {}
    /\ Len(pre_uv_meshes[1].uv_layers) = 1
    /\ pre_uv_meshes[1].uv_layers[1].name # call.target
    /\ C4_Full(2)
    /\ result.reports # <<>>

\* ---- C5 ----
C5_HadTarget(i) ==
    \E k \in 1..Len(pre_uv_meshes[i].uv_layers) : pre_uv_meshes[i].uv_layers[k].name = call.target

\* Mesh i has the target UV map, it is not the active UV map, and it was not just
\* created as a copy of the active UV map
C5_Applies(i) ==
    /\ pre_uv_meshes[i].active # 0
    /\ pre_uv_meshes[i].uv_layers[pre_uv_meshes[i].active].name # call.target
    /\ \/ C5_HadTarget(i)
       \/ call.not_found_action = "CREATE"

\* The entry of loop l of mesh i in the target UV map before the call (the default
\* of a UV map created without initialisation) and after it
C5_TargetBefore(i, l) ==
    IF C5_HadTarget(i)
    THEN pre_uv_meshes[i].uv_layers[CHOOSE k \in 1..Len(pre_uv_meshes[i].uv_layers) :
                                       pre_uv_meshes[i].uv_layers[k].name = call.target].data[l]
    ELSE [uv |-> [x |-> 0, y |-> 0], pin_uv |-> FALSE, select |-> FALSE]

C5_TargetAfter(i, l) ==
    uv_meshes[i].uv_layers[CHOOSE k \in 1..Len(uv_meshes[i].uv_layers) :
                              uv_meshes[i].uv_layers[k].name = call.target].data[l]

C5_Source(i, l) == pre_uv_meshes[i].uv_layers[pre_uv_meshes[i].active].data[l]

\* Loop l of mesh i is on a face visible in the UV editor and passes every chosen filter
C5_ToCopy(i, l) ==
    /\ \E f \in 1..Len(pre_uv_meshes[i].faces) :
          /\ l \in SeqToSet(pre_uv_meshes[i].faces[f].loops)
          /\ uv_select_sync \/ pre_uv_meshes[i].faces[f].select
    /\ "SELECTED" \in call.filter => C5_Source(i, l).select
    /\ "PINNED" \in call.filter => C5_Source(i, l).pin_uv

\* The entry that takes the chosen attributes from `source` and the others from `old`
C5_Taken(source, old) ==
    [uv |-> [x |-> IF "X" \in call.attributes THEN source.uv.x ELSE old.uv.x,
             y |-> IF "Y" \in call.attributes THEN source.uv.y ELSE old.uv.y],
     pin_uv |-> IF "PIN" \in call.attributes THEN source.pin_uv ELSE old.pin_uv,
     select |-> IF "SELECT" \in call.attributes THEN source.select ELSE old.select]

\* C5: when the UV copy operator is not cancelled for lack of room, then for a
\* mesh whose target UV map exists, is not the active UV map and was not just
\* created as an initialised copy, the chosen attributes of a loop are copied
\* from the active UV map to the target UV map if and only if the loop is on a
\* face visible in the UV editor (every face with UV sync selection, the selected
\* faces without) and its entry in the active UV map passes every chosen filter;
\* every other loop of the target UV map keeps its values.
C5_CopiedIffVisibleAndFiltered ==
    (/\ call.op = "uv_copy_to_other_uvmap"
     /\ ~(call.not_found_action \in {"CREATE", "CREATE_INIT"}
          /\ \E i \in DOMAIN pre_uv_meshes : C4_Full(i)))
    => \A i \in DOMAIN pre_uv_meshes :
          C5_Applies(i) =>
             \A l \in DOMAIN pre_uv_meshes[i].uv_layers[pre_uv_meshes[i].active].data :
                C5_TargetAfter(i, l) =
                   IF C5_ToCopy(i, l) THEN C5_Taken(C5_Source(i, l), C5_TargetBefore(i, l))
                   ELSE C5_TargetBefore(i, l)

(***************************************************************************)
(* ActiveVertexMovementToSelected.  objects[1] is context.object, and its  *)
(* active_vert is the vertex at the end of the selection history, 0 when   *)
(* the active element is no vertex.  Vertex selection mode is enabled.     *)
(***************************************************************************)
\* ActiveVertexMovementToSelected.poll
ActiveVertexMovementToSelectedPoll ==
    /\ PollMode
    /\ objects[1].key_blocks # <<>>
    /\ objects[1].use_relative
    /\ objects[1].relative_key[objects[1].active] # objects[1].active
    /\ objects[1].active # 1

\* A mutant: the missing shape key is not reported
ShapeNotFoundUnreported(shape) == <<>>

\* self.report({'ERROR_INVALID_INPUT'}, f"Shape key '{self.shape}' not found")
ShapeNotFoundReports(shape) == << <<"ERROR_INVALID_INPUT", NotFoundMessage(shape)>> >>

\* active_vert_movement, for the shape key at place shape_key of the active mesh
ActiveVertMovement(obj, shape_key) ==
    LET active_vert == obj.verts[obj.active_vert]
        relative_shape_layer == obj.relative_key[shape_key]
    IN  IF obj.active = shape_key
        THEN RSub(active_vert.co, active_vert.shape[relative_shape_layer])
        ELSE RSub(active_vert.shape[shape_key], active_vert.shape[relative_shape_layer])

\* The test of the elif of the loop over the objects
BasisLike(obj) ==
    \/ obj.key_blocks = <<>>
    \/ obj.use_relative /\ obj.relative_key[obj.active] = obj.active
    \/ obj.active = 1

\* A mutant: the active vertex is skipped without `add` as well
SkipsActiveVertWithoutAdd(is_add, is_active_object, include_active_vertex) ==
    is_active_object /\ ~include_active_vertex

\* is_add and obj == active_object and not self.include_active_vertex: the loop
\* that leaves out the active vertex is taken
SkipsActiveVert(is_add, is_active_object, include_active_vertex) ==
    is_add /\ is_active_object /\ ~include_active_vertex

\* The body of the loop over the objects, for the object obj
BlendObject(obj, is_active_object, active_vert_movement, mix, is_add, include_active_vertex) ==
    LET add_movement == RMul(active_vert_movement, mix)
        relative_shape_layer ==
            IF obj.use_relative THEN obj.relative_key[obj.active] ELSE obj.active - 1
        Blend(v) ==
            LET bv == obj.verts[v]
            IN  IF ~SelectedVisible(bv) THEN bv
                ELSE IF SkipsActiveVert(is_add, is_active_object, include_active_vertex)
                        /\ v = obj.active_vert
                THEN bv
                ELSE IF is_add \/ BasisLike(obj)
                THEN [bv EXCEPT !.co = RAdd(bv.co, add_movement)]
                ELSE [bv EXCEPT !.co =
                        Lerp(bv.co, RAdd(bv.shape[relative_shape_layer], active_vert_movement), mix)]
    IN  [obj EXCEPT !.verts = [v \in DOMAIN obj.verts |-> Blend(v)]]

\* The early returns of execute that come after the shape key is found
NothingToBlend(active_object, shape_key, mix, add) ==
    \/ add /\ active_object.relative_key[shape_key] = shape_key
    \/ ~VecAny(ActiveVertMovement(active_object, shape_key)) /\ add
    \/ mix = RInt(0)

\* The meshes in edit mode after execute, objs being the meshes before it
BlendedObjects(objs, shape, mix, add, include_active_vertex) ==
    LET active_object == objs[1]
        shape_key == Find(active_object.key_blocks, shape)
    IN  IF active_object.active_vert = 0 \/ shape_key = 0 THEN objs
        ELSE IF NothingToBlend(active_object, shape_key, mix, add) THEN objs
        ELSE [o \in DOMAIN objs |->
                 BlendObject(objs[o], o = 1, ActiveVertMovement(active_object, shape_key),
                             mix, add, include_active_vertex)]

\* ActiveVertexMovementToSelected.execute
ActiveVertexMovementToSelectedExecute(shape, mix, add, include_active_vertex) ==
    LET active_object == objects[1]
        shape_key == Find(active_object.key_blocks, shape)
    IN  /\ call = NoCall
        /\ ActiveVertexMovementToSelectedPoll
        /\ call' = [op |-> "active_vertex_movement_to_selected", shape |-> shape, mix |-> mix,
                    add |-> add, include_active_vertex |-> include_active_vertex]
        /\ pre_objects' = objects
        /\ UNCHANGED not_mesh_vars
        /\ objects' = BlendedObjects(objects, shape, mix, add, include_active_vertex)
        /\ result' = IF active_object.active_vert = 0
                     THEN [status |-> "CANCELLED", reports |-> <<>>]
                     ELSE IF shape_key = 0
                     THEN [status |-> "FINISHED", reports |-> ShapeNotFoundReports(shape)]
                     ELSE [status |-> "FINISHED", reports |-> <<>>]

\* The shape key settings of the active mesh, which pass poll: "Key 1" active;
\* "Key 2" active and relative to "Key 1"; "Key 2" active and "Key 1" relative to
\* itself.
ActiveMeshObjects(active_vert, verts) ==
    {[KeyedObject(c[1], active_vert, verts) EXCEPT !.relative_key = c[2]] :
        c \in {<<2, <<1, 1, 1>> >>, <<3, <<1, 1, 2>> >>, <<3, <<1, 2, 1>> >>}}

\* The shape key settings of the other mesh: no shape keys; "Key 1" active with
\* absolute shape keys; "Key 2" active and relative to "Key 1".
OtherMeshObjects(verts) ==
    {UnkeyedObject(0, verts),
     [KeyedObject(2, 0, verts) EXCEPT !.use_relative = FALSE],
     [KeyedObject(3, 0, verts) EXCEPT !.relative_key = <<1, 1, 2>>]}

\* Two meshes in edit mode, of two vertices and of one
InitActiveVertex ==
    /\ call = NoCall
    /\ result = NoResult
    /\ NoBones
    /\ NoUVMeshes
    /\ \E v1 \in VertStates({FixedShape}), c2 \in 0..MaxCo, c3 \in 0..MaxCo, active_vert \in 0..2 :
       \E obj1 \in ActiveMeshObjects(active_vert,
                      <<v1, [select |-> TRUE, hide |-> FALSE, co |-> RInt(c2), shape |-> FixedShape]>>),
          obj2 \in OtherMeshObjects(
                      << [select |-> TRUE, hide |-> FALSE, co |-> RInt(c3), shape |-> FixedShape] >>) :
          objects = <<obj1, obj2>>
    /\ pre_objects = objects

NextActiveVertex ==
    \E shape \in KeyNames, mix \in {RInt(0), Rat(1, 2), RInt(1), RInt(2)}, add \in BOOLEAN,
       include_active_vertex \in BOOLEAN :
        ActiveVertexMovementToSelectedExecute(shape, mix, add, include_active_vertex)

SpecActiveVertex == InitActiveVertex /\ [][NextActiveVertex]_vars

(***************************************************************************)
(* The operators that have an execute path on which they decline to act    *)
(***************************************************************************)
InitOperators == InitBone \/ InitTransfer \/ InitActiveVertex \/ InitUV

NextOperators ==
    \/ NextBoneCycle
    \/ \E mode \in {"ADD", "REPLACE", "REPLACE_CHANGED"}, shape_key_name \in KeyNames,
          swap_after_execute \in BOOLEAN :
          TransferPendingChangesExecute(mode, shape_key_name, swap_after_execute)
    \/ NextActiveVertex
    \/ NextUV

SpecOperators == InitOperators /\ [][NextOperators]_vars

\* ---- C2 ----
\* The bone cycle operator was run and no sibling of the active bone was eligible
C2_NoEligibleSibling ==
    /\ call.op = "bone_cycle_hierarchy"
    /\ \A i \in 1..Len(pre_bones) :
          i # pre_active_bone => pre_bones[i].hide \/ pre_bones[i].hide_select

\* ActiveVertexMovementToSelected was run and there was no active vertex
C2_NoActiveVertex ==
    /\ call.op = "active_vertex_movement_to_selected"
    /\ pre_objects[1].active_vert = 0

\* ActiveVertexMovementToSelected was run with an active vertex and a shape that
\* is no shape key of the active mesh
C2_ShapeMissing ==
    /\ call.op = "active_vertex_movement_to_selected"
    /\ pre_objects[1].active_vert # 0
    /\ \A k \in 1..Len(pre_objects[1].key_blocks) : pre_objects[1].key_blocks[k] # call.shape

\* TransferPendingChanges was run and the target shape key was missing
C2_TargetMissing ==
    /\ call.op = "transfer_pending_shape_key_changes"
    /\ \A k \in 1..Len(pre_objects[1].key_blocks) :
          pre_objects[1].key_blocks[k] # call.shape_key_name

\* The UV copy operator was run and a mesh had no room for the UV map to create
C2_NoRoom ==
    /\ call.op = "uv_copy_to_other_uvmap"
    /\ call.not_found_action \in {"CREATE", "CREATE_INIT"}
    /\ \E i \in DOMAIN pre_uv_meshes : C4_Full(i)

C2_NothingChanged ==
    /\ bones = pre_bones
    /\ active_bone = pre_active_bone
    /\ objects = pre_objects
    /\ uv_meshes = pre_uv_meshes

C2_OneErrorReported ==
    /\ Len(result.reports) = 1
    /\ result.reports[1][1] = "ERROR_INVALID_INPUT"

\* C2 as stated: on every execute path on which an operator declines to act (the
\* bone cycle operator without an eligible sibling, ActiveVertexMovementToSelected
\* without an active vertex, TransferPendingChanges with a missing target, ...)
\* a status is returned and a user-facing message is reported.
C2_DeclineHasStatusAndMessage ==
    (C2_NoEligibleSibling \/ C2_NoActiveVertex \/ C2_ShapeMissing \/ C2_TargetMissing \/ C2_NoRoom)
    => /\ result.status \in {"FINISHED", "CANCELLED"}
       /\ result.reports # <<>>

\* C2, amended: every declining execute path returns a status and changes
\* nothing.  TransferPendingChanges with a missing target,
\* ActiveVertexMovementToSelected with a missing shape and the UV copy operator
\* without room return FINISHED and report one ERROR_INVALID_INPUT message; the
\* bone cycle operator without an eligible sibling and
\* ActiveVertexMovementToSelected without an active vertex return CANCELLED and
\* report no message.
C2_DeclineHasStatus ==
    /\ (C2_NoEligibleSibling \/ C2_NoActiveVertex)
       => /\ result.status = "CANCELLED"
          /\ result.reports = <<>>
          /\ C2_NothingChanged
    /\ (C2_ShapeMissing \/ C2_TargetMissing \/ C2_NoRoom)
       => /\ result.status = "FINISHED"
          /\ C2_OneErrorReported
          /\ C2_NothingChanged

\* C2 witness: ActiveVertexMovementToSelected was run with an active vertex and
\* a missing shape on a mesh with a pending change, and declined with a message.
C2_Witness ==
    /\ C2_ShapeMissing
    /\ pre_objects[1].verts[2].co # pre_objects[1].verts[2].shape[pre_objects[1].active]
    /\ result.status = "FINISHED"
    /\ result.reports # <<>>

\* ---- C11 ----
\* The meshes after execute of the recorded call on the meshes as they were, with
\* include_active_vertex as given and the other properties as recorded
C11_Result(include_active_vertex) ==
    BlendedObjects(pre_objects, call.shape, call.mix, call.add, include_active_vertex)

\* C11: for the same meshes, shape, mix and add, ActiveVertexMovementToSelected
\* with include_active_vertex true and with include_active_vertex false ends in
\* the same meshes when add is off; when add is on the two ends differ at most in
\* the coordinate of the active vertex, and that coordinate is as it was before
\* execute when include_active_vertex is false.
C11_IncludeActiveVertexOnlyWithAdd ==
    call.op = "active_vertex_movement_to_selected" =>
        /\ objects = C11_Result(call.include_active_vertex)
        /\ ~call.add => C11_Result(TRUE) = C11_Result(FALSE)
        /\ call.add =>
              /\ \A o \in DOMAIN pre_objects : \A v \in DOMAIN pre_objects[o].verts :
                    \/ o = 1 /\ v = pre_objects[1].active_vert
                    \/ C11_Result(TRUE)[o].verts[v] = C11_Result(FALSE)[o].verts[v]
              /\ pre_objects[1].active_vert # 0 =>
                    /\ C11_Result(FALSE)[1].verts[pre_objects[1].active_vert].co
                       = pre_objects[1].verts[pre_objects[1].active_vert].co
                    /\ [C11_Result(TRUE)[1].verts[pre_objects[1].active_vert] EXCEPT !.co = RInt(0)]
                       = [C11_Result(FALSE)[1].verts[pre_objects[1].active_vert] EXCEPT !.co = RInt(0)]

\* C11 witness: add was off and include_active_vertex off, and the selected,
\* visible active vertex was blended all the same, as was another vertex
C11_Witness ==
    /\ call.op = "active_vertex_movement_to_selected"
    /\ ~call.add
    /\ ~call.include_active_vertex
    /\ pre_objects[1].active_vert # 0
    /\ objects[1].verts[pre_objects[1].active_vert].co
       # pre_objects[1].verts[pre_objects[1].active_vert].co
    /\ objects[2] # pre_objects[2]

(***************************************************************************)
(* SelectAllByTraitNumberOfVertexGroups.py.  An object in edit mode is     *)
(*   vertex_groups  the names of obj.vertex_groups, in order (index 0 is   *)
(*                  place 1)                                               *)
(*   modifiers      obj.modifiers: type, has_object (mod.object is not     *)
(*                  None), show_viewport, bones: the bones of              *)
(*                  mod.object.pose.bones, as [name, use_deform]           *)
(*   deform_layer   bm.verts.layers.deform.active is not None              *)
(*   verts          the vertices: select, hide, and deform, the groups of  *)
(*                  bmvert[deform_layer] with their weights (a function of *)
(*                  group indices; weight 1 stands for any non-zero weight)*)
(***************************************************************************)
greater_than_id == "GREATER_THAN"
not_equal_id == "NOT_EQUAL"
equal_to_id == "EQUAL_TO"
less_than_id == "LESS_THAN"

subset_all == "ALL"
subset_deform == "BONE_DEFORM"
subset_other == "OTHER_DEFORM"

\* get_deform_indices(obj)
get_deform_indices(obj) ==
    LET valid_mods == {m \in 1..Len(obj.modifiers) :
                          /\ obj.modifiers[m].type = "ARMATURE"
                          /\ obj.modifiers[m].has_object
                          /\ obj.modifiers[m].show_viewport}
        all_bones == UNION {SeqToSet(obj.modifiers[m].bones) : m \in valid_mods}
    IN  {i \in 0..(Len(obj.vertex_groups) - 1) :
            \E bone \in all_bones : bone.use_deform /\ bone.name = obj.vertex_groups[i + 1]}

\* subset_indices, for a subset other than ALL (None there)
SubsetIndices(obj, subset) ==
    IF subset = subset_deform THEN get_deform_indices(obj)
    ELSE 0..(Len(obj.vertex_groups) - 1) \ get_deform_indices(obj)

\* group_count of the loop over the vertices
GroupCount(obj, bmdeformvert, subset, ignore_zero) ==
    IF subset = subset_all
    THEN IF ignore_zero
         THEN Cardinality({g \in DOMAIN bmdeformvert : bmdeformvert[g] # 0})
         ELSE Cardinality(DOMAIN bmdeformvert)
    ELSE IF ignore_zero
         THEN Cardinality({g \in DOMAIN bmdeformvert :
                              bmdeformvert[g] # 0 /\ g \in SubsetIndices(obj, subset)})
         ELSE Cardinality(SubsetIndices(obj, subset) \cap DOMAIN bmdeformvert)

\* A mutant of the comparison: greater than lets equal through
CompareOrEqual(type, group_count, number) ==
    IF type = greater_than_id THEN group_count >= number
    ELSE IF type = not_equal_id THEN group_count # number
    ELSE IF type = equal_to_id THEN group_count = number
    ELSE group_count < number

\* The if-else chain on type
Compare(type, group_count, number) ==
    IF type = greater_than_id THEN group_count > number
    ELSE IF type = not_equal_id THEN group_count # number
    ELSE IF type = equal_to_id THEN group_count = number
    ELSE group_count < number

\* A mutant: with extend, the selected vertices are looked at as well
ExtendSkipsNone(bv, extend) == FALSE

\* (bv for bv in bm.verts if not bv.select), taken with extend: the vertex is left out
ExtendSkips(bv, extend) == extend /\ bv.select

\* The body of the loop over the objects.  Whether an assignment to select of a
\* hidden vertex takes effect is the host's: select_hidden.
SelectObject(obj, number, type, subset, ignore_zero, extend, select_hidden) ==
    LET counted ==
            [v \in DOMAIN obj.verts |->
                IF ExtendSkips(obj.verts[v], extend) \/ obj.verts[v].hide THEN obj.verts[v]
                ELSE [obj.verts[v] EXCEPT !.select =
                        Compare(type, GroupCount(obj, obj.verts[v].deform, subset, ignore_zero),
                                number)]]
        select == Compare(type, 0, number)
        all == [v \in DOMAIN obj.verts |->
                   IF obj.verts[v].hide /\ ~select_hidden THEN obj.verts[v]
                   ELSE [obj.verts[v] EXCEPT !.select = select]]
    IN  IF obj.vertex_groups = <<>> THEN obj
        ELSE IF extend /\ TotalVertSel(obj) = Len(obj.verts) THEN obj
        ELSE IF obj.deform_layer /\ (subset = subset_all \/ SubsetIndices(obj, subset) # {})
        THEN [obj EXCEPT !.verts = counted]
        ELSE IF extend /\ ~select THEN obj
        ELSE [obj EXCEPT !.verts = all]

\* MYSTERYEM_select_all_my_trait_number_vertex_groups.poll
SelectByNumberVertexGroupsPoll ==
    /\ objects # <<>>
    /\ \E o \in DOMAIN objects : objects[o].vertex_groups # <<>>

\* MYSTERYEM_select_all_my_trait_number_vertex_groups.execute
SelectByNumberVertexGroupsExecute(number, type, subset, ignore_zero, extend, select_hidden) ==
    /\ call = NoCall
    /\ SelectByNumberVertexGroupsPoll
    /\ call' = [op |-> "mesh_select_by_number_vertex_groups", number |-> number, type |-> type,
                subset |-> subset, ignore_zero |-> ignore_zero, extend |-> extend]
    /\ pre_objects' = objects
    /\ objects' = [o \in DOMAIN objects |->
                      SelectObject(objects[o], number, type, subset, ignore_zero, extend,
                                   select_hidden)]
    /\ result' = [status |-> "FINISHED", reports |-> <<>>]
    /\ UNCHANGED not_mesh_vars

\* The modifiers of the first initial object: none; an armature whose pose has a
\* deform bone "A" and a bone "B" that does not deform, shown in the viewport and
\* not; an armature without object; another modifier; an armature whose deform
\* bones are "B" and a bone that names no vertex group
ModifierSettings ==
    LET ab == <<[name |-> "A", use_deform |-> TRUE], [name |-> "B", use_deform |-> FALSE]>>
        bc == <<[name |-> "B", use_deform |-> TRUE], [name |-> "C", use_deform |-> TRUE]>>
    IN  {<<>>,
         <<[type |-> "ARMATURE", has_object |-> TRUE, show_viewport |-> TRUE, bones |-> ab]>>,
         <<[type |-> "ARMATURE", has_object |-> TRUE, show_viewport |-> FALSE, bones |-> ab]>>,
         <<[type |-> "ARMATURE", has_object |-> FALSE, show_viewport |-> TRUE, bones |-> <<>>]>>,
         <<[type |-> "SUBSURF", has_object |-> FALSE, show_viewport |-> TRUE, bones |-> <<>>],
           [type |-> "ARMATURE", has_object |-> TRUE, show_viewport |-> TRUE, bones |-> bc]>>}

\* The groups a vertex of an object with n vertex groups can be in, with weights
DeformVerts(n) == UNION {[groups -> {0, 1}] : groups \in SUBSET (0..(n - 1))}

\* select and hide of a vertex: hiding a vertex deselects it
SelectHide == {sh \in [select : BOOLEAN, hide : BOOLEAN] : ~(sh.select /\ sh.hide)}

VGVert(sh, deform) == [select |-> sh.select, hide |-> sh.hide, deform |-> deform]

\* The second initial object: without vertex groups; with vertex groups that were
\* only just added (no deform layer); with a vertex in both groups
SecondVGObjects(sh) ==
    {[vertex_groups |-> <<>>, modifiers |-> <<>>, deform_layer |-> FALSE,
      verts |-> <<VGVert(sh, <<>>)>>],
     [vertex_groups |-> <<"A", "B">>, modifiers |-> <<>>, deform_layer |-> FALSE,
      verts |-> <<VGVert(sh, <<>>)>>],
     [vertex_groups |-> <<"A", "B">>, modifiers |-> <<>>, deform_layer |-> TRUE,
      verts |-> <<VGVert(sh, [g \in {0, 1} |-> 1])>>]}

\* Two objects in edit mode, of two vertices and of one
InitVertexGroups ==
    /\ call = NoCall
    /\ result = NoResult
    /\ NoBones
    /\ NoUVMeshes
    /\ \E modifiers \in ModifierSettings, sh1 \in SelectHide,
          sh2 \in {sh \in SelectHide : ~sh.hide}, sh3 \in {sh \in SelectHide : ~sh.hide},
          deform \in DeformVerts(2) :
       \E obj2 \in SecondVGObjects(sh3) :
          objects = << [vertex_groups |-> <<"A", "B">>, modifiers |-> modifiers,
                        deform_layer |-> TRUE,
                        verts |-> <<VGVert(sh1, deform),
                                    VGVert(sh2, (0 :> 1) @@ (1 :> 0))>>],
                       obj2 >>
    /\ pre_objects = objects

NextVertexGroups ==
    \E number \in 0..2, type \in {not_equal_id, greater_than_id, equal_to_id, less_than_id},
       subset \in {subset_all, subset_deform, subset_other}, ignore_zero \in BOOLEAN,
       extend \in BOOLEAN, select_hidden \in BOOLEAN :
        SelectByNumberVertexGroupsExecute(number, type, subset, ignore_zero, extend, select_hidden)

SpecVertexGroups == InitVertexGroups /\ [][NextVertexGroups]_vars

\* ---- C12 ----
\* The vertex groups of the subset the call chose, of object obj: all, those named
\* after a deform bone of the pose of an armature modifier's object (the modifier
\* shown in the viewport), or the others
C12_Subset(obj) ==
    LET deform == {i \in 0..(Len(obj.vertex_groups) - 1) :
                      \E m \in 1..Len(obj.modifiers) : \E b \in 1..Len(obj.modifiers[m].bones) :
                         /\ obj.modifiers[m].type = "ARMATURE"
                         /\ obj.modifiers[m].has_object
                         /\ obj.modifiers[m].show_viewport
                         /\ obj.modifiers[m].bones[b].use_deform
                         /\ obj.modifiers[m].bones[b].name = obj.vertex_groups[i + 1]}
    IN  IF call.subset = "ALL" THEN 0..(Len(obj.vertex_groups) - 1)
        ELSE IF call.subset = "BONE_DEFORM" THEN deform
        ELSE 0..(Len(obj.vertex_groups) - 1) \ deform

\* The group count of vertex v of object o, as it was before the call
C12_Count(o, v) ==
    Cardinality({g \in C12_Subset(pre_objects[o]) :
                    /\ g \in DOMAIN pre_objects[o].verts[v].deform
                    /\ call.ignore_zero => pre_objects[o].verts[v].deform[g] # 0})

C12_Satisfies(count) ==
    \/ call.type = "GREATER_THAN" /\ count > call.number
    \/ call.type = "NOT_EQUAL" /\ count # call.number
    \/ call.type = "EQUAL_TO" /\ count = call.number
    \/ call.type = "LESS_THAN" /\ count < call.number

\* C12: after the select-by-number-of-vertex-groups operator with extend off,
\* every non-hidden vertex of every object in edit mode that has vertex groups is
\* selected if and only if its group count (the groups of the chosen subset it is
\* assigned to, those of weight zero left out with ignore_zero) satisfies the
\* comparison of type with number.
C12_SelectedIffCountSatisfies ==
    (call.op = "mesh_select_by_number_vertex_groups" /\ ~call.extend) =>
        \A o \in DOMAIN pre_objects : pre_objects[o].vertex_groups # <<>> =>
            \A v \in DOMAIN pre_objects[o].verts : ~pre_objects[o].verts[v].hide =>
                (objects[o].verts[v].select <=> C12_Satisfies(C12_Count(o, v)))

\* C12 witness: with ignore_zero and the deform subset, a vertex in two groups, one
\* of weight zero and the other not of the subset, was deselected for a count of
\* 0, and the other vertex of the object was selected for a count of 1.
C12_Witness ==
    /\ call.op = "mesh_select_by_number_vertex_groups"
    /\ ~call.extend
    /\ call.ignore_zero
    /\ call.subset = "BONE_DEFORM"
    /\ call.type = "GREATER_THAN"
    /\ DOMAIN pre_objects[1].verts[1].deform = {0, 1}
    /\ pre_objects[1].verts[1].deform[1] # 0
    /\ C12_Count(1, 1) = 0
    /\ C12_Count(1, 2) = 1
    /\ pre_objects[1].verts[1].select /\ ~objects[1].verts[1].select
    /\ ~pre_objects[1].verts[2].select /\ objects[1].verts[2].select

\* ---- C13 ----
\* C13: with extend on, the select-by-number-of-vertex-groups operator deselects
\* no vertex: on every object a vertex that was selected before execute is as it
\* was; only vertices that were not selected can have changed.
C13_ExtendKeepsSelection ==
    (call.op = "mesh_select_by_number_vertex_groups" /\ call.extend) =>
        \A o \in DOMAIN pre_objects : \A v \in DOMAIN pre_objects[o].verts :
            pre_objects[o].verts[v].select => objects[o].verts[v] = pre_objects[o].verts[v]

\* C13 witness: with extend on, a selected vertex whose count does not satisfy the
\* comparison stayed selected while the other vertex of the object was selected
\* (deform layer present), and the vertex of the second object, without deform
\* layer, was selected as well.
C13_Witness ==
    /\ call.op = "mesh_select_by_number_vertex_groups"
    /\ call.extend
    /\ pre_objects[1].verts[1].select
    /\ ~C12_Satisfies(C12_Count(1, 1))
    /\ objects[1].verts[1].select
    /\ ~pre_objects[1].verts[2].select /\ objects[1].verts[2].select
    /\ pre_objects[2].vertex_groups # <<>>
    /\ ~pre_objects[2].deform_layer
    /\ ~pre_objects[2].verts[1].select /\ objects[2].verts[1].select

(***************************************************************************)
(* ShapeKeyMirrorAdditive.py, in object mode.  objects[1] is               *)
(* context.object; verts[v].shape[k] is key_blocks[k].data[v].co, of which *)
(* the x component is modelled.  The host's shape_key_mirror gives the     *)
(* vertex v the negated x of its mirror vertex partner[v], and leaves a    *)
(* vertex without mirror vertex (partner[v] = 0) as it is.                 *)
(***************************************************************************)
\* MYSTERYEM_shape_key_mirror_additive.poll
ShapeKeyMirrorAdditivePoll ==
    /\ objects # <<>>
    /\ objects[1].key_blocks # <<>>

\* bpy.ops.object.shape_key_mirror on the active shape key of obj
ShapeKeyMirror(obj, partner) ==
    [obj EXCEPT !.verts =
        [v \in DOMAIN obj.verts |->
            IF partner[v] = 0 THEN obj.verts[v]
            ELSE [obj.verts[v] EXCEPT !.shape[obj.active] =
                    RSub(RInt(0), obj.verts[partner[v]].shape[obj.active])]]]

\* A mutant: the relative key is not subtracted
MirroredPlusOriginal(orig_shape_position, relative_key_position, mirrored_key_position) ==
    RAdd(mirrored_key_position, orig_shape_position)

\* mirrored_key_positions += orig_shape_positions - relative_key_positions
MirroredPlusMovement(orig_shape_position, relative_key_position, mirrored_key_position) ==
    RAdd(mirrored_key_position, RSub(orig_shape_position, relative_key_position))

\* mirror_shape_key_additive, after the host's mirror finished: obj is the object
\* before the mirror, mirrored the object after it
MirrorAdded(obj, mirrored) ==
    [mirrored EXCEPT !.verts =
        [v \in DOMAIN obj.verts |->
            [mirrored.verts[v] EXCEPT !.shape[obj.active] =
                MirroredPlusMovement(obj.verts[v].shape[obj.active],
                                     mirrored.verts[v].shape[obj.relative_key[obj.active]],
                                     mirrored.verts[v].shape[obj.active])]]]

\* MYSTERYEM_shape_key_mirror_additive.execute.  mirror_result and partner are
\* the host's: what shape_key_mirror returns, and the mirror vertices it finds.
\* result.mirrored holds the active shape key as the host's mirror left it.
ShapeKeyMirrorAdditiveExecute(use_topology, mirror_result, partner) ==
    LET obj == objects[1]
        mirrored == IF mirror_result = "FINISHED" THEN ShapeKeyMirror(obj, partner) ELSE obj
    IN  /\ call = NoCall
        /\ ShapeKeyMirrorAdditivePoll
        /\ call' = [op |-> "shape_key_mirror_additive", use_topology |-> use_topology]
        /\ pre_objects' = objects
        /\ objects' = IF mirror_result = "FINISHED"
                      THEN [objects EXCEPT ![1] = MirrorAdded(obj, mirrored)]
                      ELSE objects
        /\ result' = [status |-> mirror_result, reports |-> <<>>,
                      mirrored |-> [v \in DOMAIN obj.verts |-> mirrored.verts[v].shape[obj.active]]]
        /\ UNCHANGED not_mesh_vars

\* A vertex in object mode, with its position in each shape key
MirrorVert(shape) == [select |-> FALSE, hide |-> FALSE, co |-> shape[1], shape |-> shape]

\* One object of two vertices, in object mode
InitMirror ==
    /\ call = NoCall
    /\ result = NoResult
    /\ NoBones
    /\ NoUVMeshes
    \* "Key 1" active; the reference key active; "Key 1" active and relative to
    \* itself; "Key 2" active and relative to "Key 1"
    /\ \E c \in {<<2, <<1, 1, 1>> >>, <<1, <<1, 1, 1>> >>, <<2, <<1, 2, 1>> >>,
                 <<3, <<1, 1, 2>> >>} :
       \E s1 \in [1..NumKeys -> {RInt(x) : x \in 0..MaxCo}],
          s2 \in [1..NumKeys -> {RInt(x) : x \in 0..MaxCo}] :
          objects = << [KeyedObject(c[1], 0, <<MirrorVert(s1), MirrorVert(s2)>>)
                          EXCEPT !.relative_key = c[2]] >>
    /\ pre_objects = objects

NextMirror ==
    \* the mirror vertices of the two vertices: each other's, their own, or none
    \E use_topology \in BOOLEAN, mirror_result \in {"FINISHED", "CANCELLED"},
       partner \in {<<2, 1>>, <<1, 2>>, <<0, 0>>} :
        ShapeKeyMirrorAdditiveExecute(use_topology, mirror_result, partner)

SpecMirror == InitMirror /\ [][NextMirror]_vars

\* ---- C14 ----
\* The value of vertex v in shape key k of the object, before the call and after it
C14_Before(v, k) == pre_objects[1].verts[v].shape[k]
C14_After(v, k) == objects[1].verts[v].shape[k]

C14_Active == pre_objects[1].active
C14_Relative == pre_objects[1].relative_key[pre_objects[1].active]

\* The host's mirror did not finish: nothing is written, and its result is returned
C14_NotFinishedNothingWritten ==
    (call.op = "shape_key_mirror_additive" /\ result.status # "FINISHED") =>
        /\ objects = pre_objects
        /\ result.status = "CANCELLED"

\* C14 as stated: when the host's mirror finishes, every coordinate of the active
\* shape key afterwards is the mirrored value plus the movement of the key before
\* mirroring (its value before mirroring minus the value in the relative key);
\* when it does not finish nothing is written and its result is returned.
C14_MirroredPlusMovementBefore ==
    /\ (call.op = "shape_key_mirror_additive" /\ result.status = "FINISHED") =>
          \A v \in DOMAIN pre_objects[1].verts :
              C14_After(v, C14_Active)
              = RAdd(result.mirrored[v], RSub(C14_Before(v, C14_Active), C14_Before(v, C14_Relative)))
    /\ C14_NotFinishedNothingWritten

\* C14 amended: the same when the active shape key is relative to another key;
\* when it is relative to itself, the value in the relative key is read after the
\* mirror and is the mirrored value, so every coordinate ends as it was before
\* mirroring.  The other shape keys are not written.
C14_MirroredPlusMovementToOtherKey ==
    /\ (call.op = "shape_key_mirror_additive" /\ result.status = "FINISHED") =>
          \A v \in DOMAIN pre_objects[1].verts :
              /\ C14_Relative # C14_Active =>
                    C14_After(v, C14_Active)
                    = RAdd(result.mirrored[v],
                           RSub(C14_Before(v, C14_Active), C14_Before(v, C14_Relative)))
              /\ C14_Relative = C14_Active =>
                    C14_After(v, C14_Active) = C14_Before(v, C14_Active)
              /\ \A k \in 1..NumKeys : k # C14_Active => C14_After(v, k) = C14_Before(v, k)
    /\ C14_NotFinishedNothingWritten

\* C14 witness: the mirror finished on a key relative to another key, the two
\* vertices being each other's mirror vertex; the first vertex had moved in the
\* key and ends neither at its mirrored value nor where it was.
C14_Witness ==
    /\ call.op = "shape_key_mirror_additive"
    /\ result.status = "FINISHED"
    /\ C14_Relative # C14_Active
    /\ C14_Before(1, C14_Active) # C14_Before(1, C14_Relative)
    /\ result.mirrored[1] = RSub(RInt(0), C14_Before(2, C14_Active))
    /\ C14_After(1, C14_Active) # result.mirrored[1]
    /\ C14_After(1, C14_Active) # C14_Before(1, C14_Active)

(***************************************************************************)
(* UnAtlasSelection.py: the script, run on the mesh uv_meshes[1] of        *)
(* context.object in edit mode.  The coordinates of a UV are fractions.    *)
(* result.division_sizes holds what the calls of get_division_size         *)
(* returned, in order.                                                     *)
(***************************************************************************)
RLess(a, b) == a.n * b.d < b.n * a.d
RLeq(a, b) == a.n * b.d <= b.n * a.d

RECURSIVE RMax(_)
RMax(values) ==
    LET x == CHOOSE x \in values : TRUE
    IN  IF values = {x} THEN x
        ELSE LET m == RMax(values \ {x}) IN IF RLess(m, x) THEN x ELSE m

RECURSIVE RMin(_)
RMin(values) ==
    LET x == CHOOSE x \in values : TRUE
    IN  IF values = {x} THEN x
        ELSE LET m == RMin(values \ {x}) IN IF RLess(x, m) THEN x ELSE m

\* A mutant of the test of the loop: a length that just fits does not fit
ReachesCell(normalized_length, n) == RLeq(Rat(1, 2^n), normalized_length)

\* normalized_length > 1/(2**n)
ExceedsCell(normalized_length, n) == RLess(Rat(1, 2^n), normalized_length)

\* The while loop of get_division_size, from n on
RECURSIVE DivisionSizeFrom(_, _)
DivisionSizeFrom(normalized_length, n) ==
    IF ExceedsCell(normalized_length, n) THEN n - 1
    ELSE DivisionSizeFrom(normalized_length, n + 1)

\* get_division_size(normalized_length), for a length that does not make it raise
get_division_size(normalized_length) == DivisionSizeFrom(normalized_length, 0)

\* find_closest_division(divisions, normalized_value)/divisions, int() cutting
\* the product off towards zero
MinTexture(divisions, normalized_value) ==
    LET product == RMul(normalized_value, divisions)
        closest == IF product.n >= 0 THEN product.n \div product.d
                   ELSE 0 - ((0 - product.n) \div product.d)
    IN  Rat(closest * divisions.d, divisions.n)

\* The selected UVs of the active UV layer, as loop indices
SelectedUVs(mesh) ==
    {l \in MeshLoops(mesh) : mesh.uv_layers[mesh.active].data[l].select}

\* x_bb_length and y_bb_length
BBLength(mesh, axis) ==
    LET values == {mesh.uv_layers[mesh.active].data[l].uv[axis] : l \in SelectedUVs(mesh)}
    IN  RSub(RMax(values), RMin(values))

\* The loop over selected_uvs at the end of the script
UnAtlased(mesh) ==
    LET data == mesh.uv_layers[mesh.active].data
        selected_uvs == SelectedUVs(mesh)
        min_u == RMin({data[l].uv.x : l \in selected_uvs})
        min_v == RMin({data[l].uv.y : l \in selected_uvs})
        \* allow_non_square is False: the smaller size is taken for both
        x_size == get_division_size(BBLength(mesh, "x"))
        y_size == get_division_size(BBLength(mesh, "y"))
        division_size == IF x_size < y_size THEN x_size ELSE y_size
        \* 2**division_size, the size being -1 for a length above 1
        divisions == IF division_size >= 0 THEN RInt(2^division_size) ELSE Rat(1, 2)
        min_texture_u == MinTexture(divisions, min_u)
        min_texture_v == MinTexture(divisions, min_v)
    IN  [mesh EXCEPT !.uv_layers[mesh.active].data =
            [l \in DOMAIN data |->
                IF l \in selected_uvs
                THEN [data[l] EXCEPT !.uv = [x |-> RMul(RSub(data[l].uv.x, min_texture_u), divisions),
                                             y |-> RMul(RSub(data[l].uv.y, min_texture_v), divisions)]]
                ELSE data[l]]]

\* The whole script
UnAtlasSelectionScript ==
    LET mesh == uv_meshes[1]
        x_bb_length == BBLength(mesh, "x")
        y_bb_length == BBLength(mesh, "y")
    IN  /\ call = NoCall
        /\ uv_meshes # <<>>
        /\ call' = [op |-> "UnAtlasSelection"]
        /\ pre_uv_meshes' = uv_meshes
        /\ UNCHANGED <<uv_select_sync, not_uv_vars>>
        /\ IF mesh.active = 0 \/ SelectedUVs(mesh) = {}
           THEN /\ result' = [status |-> "DONE", reports |-> <<>>, division_sizes |-> <<>>]
                /\ UNCHANGED uv_meshes
           ELSE IF RLeq(x_bb_length, RInt(0))
           THEN /\ result' = [status |-> "RuntimeError", reports |-> <<>>, division_sizes |-> <<>>]
                /\ UNCHANGED uv_meshes
           ELSE IF RLeq(y_bb_length, RInt(0))
           THEN /\ result' = [status |-> "RuntimeError", reports |-> <<>>,
                              division_sizes |-> <<get_division_size(x_bb_length)>>]
                /\ UNCHANGED uv_meshes
           ELSE /\ result' = [status |-> "DONE", reports |-> <<>>,
                              division_sizes |-> <<get_division_size(x_bb_length),
                                                   get_division_size(y_bb_length)>>]
                /\ uv_meshes' = [uv_meshes EXCEPT ![1] = UnAtlased(mesh)]

\* One mesh in edit mode, of one face of two loops, with one UV layer or none
InitUnAtlas ==
    /\ call = NoCall
    /\ result = NoResult
    /\ NoBones
    /\ NoMeshes
    /\ uv_select_sync = FALSE
    /\ LET loop_uvs == [uv : [x : {RInt(0), Rat(1, 8), Rat(1, 4), Rat(3, 8), Rat(1, 2),
                                    RInt(1), Rat(3, 2)},
                               y : {RInt(0), Rat(1, 4), RInt(1)}],
                         pin_uv : {FALSE}, select : BOOLEAN]
       IN  \E l1 \in loop_uvs, l2 \in loop_uvs, names \in {<<>>, <<"UVMap">>} :
              uv_meshes = << UVMesh("Mesh", names, Len(names),
                                    <<[select |-> TRUE, loops |-> <<1, 2>>]>>, <<l1, l2>>) >>
    /\ pre_uv_meshes = uv_meshes

NextUnAtlas == UnAtlasSelectionScript

SpecUnAtlas == InitUnAtlas /\ [][NextUnAtlas]_vars

\* ---- C15 ----
\* The script got to the bounding box: there is a UV layer and a selected UV
C15_HasBoundingBox ==
    /\ call.op = "UnAtlasSelection"
    /\ pre_uv_meshes[1].active # 0
    /\ \E l \in DOMAIN pre_uv_meshes[1].uv_layers[1].data :
          pre_uv_meshes[1].uv_layers[1].data[l].select

\* The lengths of the bounding box of the selected UVs, before the call
C15_Length(axis) == BBLength(pre_uv_meshes[1], axis)

\* k is the largest integer k >= 0 with length <= 1/2^k
C15_LargestFit(length, k) ==
    /\ k >= 0
    /\ \A j \in 0..(k + 2) : (length.n * 2^j <= length.d) <=> j <= k

\* C15: get_division_size(length) returns for every positive length, and for
\* 0 < length <= 1 what it returns is the largest integer k >= 0 with
\* length <= 1/2^k; for a length <= 0 a RuntimeError is raised and no UV is
\* modified.
C15_DivisionSize ==
    C15_HasBoundingBox =>
        /\ C15_Length("x").n > 0 =>
              /\ Len(result.division_sizes) >= 1
              /\ C15_Length("x").n <= C15_Length("x").d =>
                    C15_LargestFit(C15_Length("x"), result.division_sizes[1])
        /\ (C15_Length("x").n > 0 /\ C15_Length("y").n > 0) =>
              /\ Len(result.division_sizes) = 2
              /\ result.status = "DONE"
              /\ C15_Length("y").n <= C15_Length("y").d =>
                    C15_LargestFit(C15_Length("y"), result.division_sizes[2])
        /\ (C15_Length("x").n <= 0 \/ C15_Length("y").n <= 0) =>
              /\ result.status = "RuntimeError"
              /\ uv_meshes = pre_uv_meshes

\* C15 witness: a bounding box of width 1/8 and height 1/4, for which 3 and 2 were
\* returned, and the UVs were moved.
C15_Witness ==
    /\ C15_HasBoundingBox
    /\ C15_Length("x") = Rat(1, 8)
    /\ C15_Length("y") = Rat(1, 4)
    /\ result.division_sizes = <<3, 2>>
    /\ uv_meshes # pre_uv_meshes

(***************************************************************************)
(* automateSurfaceDeformShapeKeyCopy.py: MYSTERYEM_transfer_shape_key_     *)
(* movement, in object mode.  objects = <<transfer_to, transfer_from>>, the *)
(* two selected objects, the first being context.object.  An object has    *)
(* its type, the users of its data, its modifiers and the key_blocks of    *)
(* its shape keys (<<>> without shape keys); a key block has its name, its *)
(* slider range and its value.  The geometry the Surface Deform modifier   *)
(* computes is the host's and is not kept, nor are the settings of the     *)
(* modifier, which only that geometry depends on.                          *)
(* result.modifier_added, result.values_set and result.keys_applied tell   *)
(* whether execute() got to line 82, to a write of shape.value and to a    *)
(* modifier_apply_as_shapekey that finished.                               *)
(***************************************************************************)
SliderErrorMessage == "All shape keys must be possible to set to 0 and 1"
BasisErrorMessage ==
    "Either all shape keys to transfer must have their values set to zero or the mesh to transfer"
    \o " to must not have shape keys"

TransferShapeKeyMovementPoll ==
    /\ Len(objects) = 2
    /\ objects[1].type = "MESH"
    /\ objects[1].users <= 1
    /\ objects[2].type = "MESH"
    /\ Len(objects[2].key_blocks) >= 2

\* A mutant of the test of line 78: only the half about 0
CannotBeSetToZero(shape) ==
    ~(RLeq(shape.slider_min, RInt(0)) /\ RLess(RInt(0), shape.slider_max))

\* not slider_min <= 0 < slider_max or not slider_min < 1 <= slider_max
CannotBeSetToZeroAndOne(shape) ==
    \/ ~(RLeq(shape.slider_min, RInt(0)) /\ RLess(RInt(0), shape.slider_max))
    \/ ~(RLess(shape.slider_min, RInt(1)) /\ RLeq(RInt(1), shape.slider_max))

\* A key block as the host creates it
NewKey(name) ==
    [name |-> name, slider_min |-> RInt(0), slider_max |-> RInt(1), value |-> RInt(0)]

\* bpy.ops.object.modifier_apply_as_shapekey followed by the naming of the new
\* key block: the host adds a "Basis" first when there is no shape key
AppliedAsShapekey(key_blocks, name) ==
    LET existing == IF key_blocks = <<>> THEN <<NewKey("Basis")>> ELSE key_blocks
        \* the host gives another name instead of one that is taken
        unique_name == IF \E i \in DOMAIN existing : existing[i].name = name
                       THEN name \o ".001" ELSE name
    IN  Append(existing, NewKey(unique_name))

\* The loop of lines 136-140 over key_blocks[i..]
RECURSIVE AppliedShapes(_, _, _)
AppliedShapes(to_key_blocks, key_blocks, i) ==
    IF i > Len(key_blocks) THEN to_key_blocks
    ELSE AppliedShapes(AppliedAsShapekey(to_key_blocks, key_blocks[i].name), key_blocks, i + 1)

TransferShapeKeyMovementExecute(apply_raises) ==
    LET transfer_to == objects[1]
        transfer_from == objects[2]
        key_blocks == transfer_from.key_blocks
        \* some shape key to transfer has a value other than 0
        transfer_to_basis == \E i \in 2..Len(key_blocks) : key_blocks[i].value.n # 0
        \* lines 115-134: the current shape applied as a shape key, the reference
        \* key removed, the applied key named as the first key of the source
        from_basis == IF transfer_to_basis THEN <<NewKey(key_blocks[1].name)>>
                      ELSE transfer_to.key_blocks
    IN  /\ call = NoCall
        /\ TransferShapeKeyMovementPoll
        /\ call' = [op |-> "copy_shape_key_movement"]
        /\ pre_objects' = objects
        /\ UNCHANGED not_mesh_vars
        /\ IF \E i \in 2..Len(key_blocks) : CannotBeSetToZeroAndOne(key_blocks[i])
           THEN /\ result' = [status |-> "CANCELLED",
                              reports |-> << <<"ERROR", SliderErrorMessage>> >>,
                              modifier_added |-> FALSE, values_set |-> FALSE, keys_applied |-> FALSE]
                /\ UNCHANGED objects
           ELSE IF transfer_to_basis /\ Len(transfer_to.key_blocks) > 1
           THEN \* the finally block restores the values and removes the modifier
                /\ result' = [status |-> "CANCELLED",
                              reports |-> << <<"ERROR", BasisErrorMessage>> >>,
                              modifier_added |-> TRUE, values_set |-> TRUE, keys_applied |-> FALSE]
                /\ UNCHANGED objects
           ELSE IF apply_raises
           THEN \* the first modifier_apply_as_shapekey raises; the finally block runs
                /\ result' = [status |-> "RuntimeError", reports |-> <<>>,
                              modifier_added |-> TRUE, values_set |-> TRUE, keys_applied |-> FALSE]
                /\ UNCHANGED objects
           ELSE /\ result' = [status |-> "FINISHED", reports |-> <<>>,
                              modifier_added |-> TRUE, values_set |-> TRUE, keys_applied |-> TRUE]
                /\ objects' = [objects EXCEPT ![1].key_blocks = AppliedShapes(from_basis, key_blocks, 2)]

\* The slider ranges and values of the shape keys of the initial source
SliderSettings ==
    {s \in [slider_min : {RInt(0 - 1), RInt(0), Rat(1, 2), RInt(1)},
             slider_max : {RInt(0), Rat(1, 2), RInt(1), RInt(2)},
             value : {RInt(0), Rat(1, 2), RInt(1)}] :
        /\ RLess(s.slider_min, s.slider_max)
        /\ RLeq(s.slider_min, s.value)
        /\ RLeq(s.value, s.slider_max)}

SourceKey(name, s) ==
    [name |-> name, slider_min |-> s.slider_min, slider_max |-> s.slider_max, value |-> s.value]

\* The key_blocks of the initial source: one key or two on top of the first
SourceKeyBlocks ==
    {<<SourceKey("Basis", b), SourceKey("Key 1", s1)>> :
        b \in {s \in SliderSettings : s.value = RInt(0) /\ s.slider_max = RInt(1)},
        s1 \in SliderSettings}
    \cup {<<SourceKey("Basis", NewKey("Basis")), SourceKey("Key 1", s1), SourceKey("Key 2", s2)>> :
        s1 \in SliderSettings, s2 \in SliderSettings}

SurfaceObject(name, users, modifiers, key_blocks) ==
    [name |-> name, type |-> "MESH", users |-> users,
     modifiers |-> modifiers, key_blocks |-> key_blocks]

\* The active object and one other selected object, in object mode
InitSurfaceDeform ==
    /\ call = NoCall
    /\ result = NoResult
    /\ NoBones
    /\ NoUVMeshes
    /\ \E tk \in {<<>>, <<NewKey("Basis")>>, <<NewKey("Basis"), NewKey("Key 1")>>},
          tm \in {<<>>, <<[name |-> "Armature", type |-> "ARMATURE"]>>}, users \in {1, 2},
          sk \in SourceKeyBlocks :
          objects = << SurfaceObject("To", users, tm, tk),
                       SurfaceObject("From", 1, <<>>, sk) >>
    /\ pre_objects = objects

NextSurfaceDeform ==
    \E apply_raises \in BOOLEAN : TransferShapeKeyMovementExecute(apply_raises)

SpecSurfaceDeform == InitSurfaceDeform /\ [][NextSurfaceDeform]_vars

\* ---- C16 ----
\* execute() returned CANCELLED with the error about 0 and 1
C16_CancelledForSliders ==
    /\ result.status = "CANCELLED"
    /\ result.reports = << <<"ERROR", SliderErrorMessage>> >>

\* Some shape key of the source other than the first has slider_min > 0 or
\* slider_max < 1
C16_SomeSliderOutOfRange ==
    \E i \in 2..Len(pre_objects[2].key_blocks) :
        LET shape == pre_objects[2].key_blocks[i]
        IN  shape.slider_min.n > 0 \/ shape.slider_max.n < shape.slider_max.d

\* C16: execute returns CANCELLED with the error "All shape keys must be possible
\* to set to 0 and 1" if and only if some non-basis shape key of the source has
\* slider_min > 0 or slider_max < 1, and then no modifier has been added to the
\* target, no shape key value of the source has been changed and no shape key has
\* been created on the target.
C16_SlidersCheckedFirst ==
    call.op = "copy_shape_key_movement" =>
        /\ C16_CancelledForSliders <=> C16_SomeSliderOutOfRange
        /\ C16_CancelledForSliders =>
              /\ ~result.modifier_added
              /\ ~result.values_set
              /\ ~result.keys_applied
              /\ objects = pre_objects

\* C16 witness: the second key of the source cannot reach 1, its first can reach
\* both and has a value other than 0, and the call was cancelled for the sliders.
C16_Witness ==
    /\ call.op = "copy_shape_key_movement"
    /\ Len(pre_objects[2].key_blocks) = 3
    /\ pre_objects[2].key_blocks[2].slider_min = RInt(0)
    /\ pre_objects[2].key_blocks[2].slider_max = RInt(1)
    /\ pre_objects[2].key_blocks[2].value = RInt(1)
    /\ pre_objects[2].key_blocks[3].slider_min = RInt(0)
    /\ pre_objects[2].key_blocks[3].slider_max = Rat(1, 2)
    /\ C16_CancelledForSliders
    /\ ~result.modifier_added

====
